---------------------------- MODULE Spec2Model ----------------------------
(***************************************************************************)
(* A model of the CPU core of the vomit x86 emulator (src/x86/CPU.cpp,     *)
(* src/x86/interrupt.cpp).                                                 *)
(*                                                                         *)
(* The specifications share the variables:                                 *)
(*   Spec / SpecFair : the main loop (CPU::main_loop), the HLT idle loop,  *)
(*                     reset / hard reboot, the command latch and the IRQ  *)
(*                     line of the PIC;                                    *)
(*   SpecReset       : the main loop with every register load and the      *)
(*                     reboot command;                                     *)
(*   SpecPaging      : the two-level page walk of                          *)
(*                     CPU::translate_address_slow_case.                   *)
(***************************************************************************)
EXTENDS Integers, Sequences, FiniteSets, TLC

VARIABLES
    \* ---- register file (CPU members) ----
    m_gpr,                  \* the eight general registers
    m_cr0, m_cr2, m_cr3, m_cr4,
    m_dr,                   \* DR0..DR7
    m_gdtr, m_idtr, m_ldtr, \* descriptor table registers: [base, limit]
    m_segment_prefix,
    m_flags,                \* EFLAGS, one field per bit (IOPL: 0..3)
    m_cs, m_eip,
    cpl,                    \* get_cpl(): the RPL of the cached CS descriptor
    \* ---- main loop ----
    m_next_instruction_is_uninterruptible,
    m_state,                \* Alive | Halted
    m_cycle,
    m_should_hard_reboot,
    m_debugger_request,
    m_main_loop_needs_slow_stuff,
    m_is_for_autotest,
    debugger_active,        \* Debugger::is_active()
    pic_pending,            \* PIC::has_pending_irq()
    pc,                     \* position of the CPU thread in main_loop
    irq_skipped,            \* the last instruction boundary was passed with an
                            \* IRQ pending and IF set, and without servicing it
    \* ---- memory ----
    m_memory,               \* flat RAM: byte address -> byte, absent = 0
    \* ---- observation of the last step ----
    done,                   \* what the last step did
    last_int,               \* the last CPU::interrupt call: [isr, source]
    xlate,                  \* the last translate_address call and its outcome
    access,                 \* the last memory access and its outcome
    m_memory_providers,     \* block of the low 1 MiB -> provider or "null"
    provider_data,          \* each provider's bytes (m_data), by offset
    physical,               \* the last physical access and who served it
    seg,                    \* the last access through a segment, its outcome
    m_ss,                   \* SS selector
    m_esp,                  \* ESP
    m_data_segments,        \* DS, ES, FS, GS selectors
    jump                    \* the last far transfer and its outcome

cpuRegs  == <<m_gpr, m_cr0, m_cr2, m_cr3, m_cr4, m_dr, m_gdtr, m_idtr, m_ldtr,
              m_segment_prefix>>
cpuFlow  == <<m_flags, m_cs, m_eip, cpl>>
loopVars == <<m_next_instruction_is_uninterruptible, m_state, m_cycle,
              m_should_hard_reboot, m_debugger_request,
              m_main_loop_needs_slow_stuff, m_is_for_autotest,
              debugger_active, pic_pending, pc, irq_skipped>>
\* the state that only the memory-access specifications change
physVars == <<m_memory_providers, provider_data, physical>>
segVars  == <<seg>>
farVars  == <<m_ss, m_esp, m_data_segments, jump>>
extVars  == <<access, physVars, segVars, farVars>>
vars     == <<cpuRegs, cpuFlow, loopVars, m_memory, done, last_int, xlate,
              extVars>>

-----------------------------------------------------------------------------
(* Bounds of the model *)

\* guest instructions executed per boot (guards the execute step)
MaxCycle == 3

\* registers among the general, control, debug and descriptor-table registers
\* that the guest has loaded since the last reset (guards the loads)
MaxLoaded == 1

-----------------------------------------------------------------------------
(* Integer helpers: the C++ bit operations on u8/u16/u32.  Values stay      *)
(* below 2^31 (the bounds keep EIP and every address and table entry there). *)

\* (x & bit) != 0 for a single-bit mask
HasBit(x, bit) == (x \div bit) % 2 = 1

\* x | bit for a single-bit mask
SetBit(x, bit) == IF HasBit(x, bit) THEN x ELSE x + bit

\* x & 0xfffff000
PageFrame(x) == x - (x % 4096)


-----------------------------------------------------------------------------
(* Physical memory: CPU::read_physical_memory / CPU::write_physical_memory.  *)
(* RAM is a byte array of m_memory_size bytes, zeroed when it is allocated;  *)
(* the model keeps the non-zero bytes only.  No memory provider is           *)
(* registered in these specifications (m_memory_providers is all null after  *)
(* construction).                                                            *)

\* CPU::CPU: set_memory_size_and_reallocate_if_needed(8192 * 1024)
m_memory_size == 8388608

ZeroedMemory == << >>

RamByte(mem, a) == IF a \in DOMAIN mem THEN mem[a] ELSE 0

RamStoreByte(mem, a, b) ==
    IF b = 0
    THEN [x \in (DOMAIN mem) \ {a} |-> mem[x]]
    ELSE [x \in (DOMAIN mem) \cup {a} |-> IF x = a THEN b ELSE mem[x]]

validate_physical_address(a) == a < m_memory_size

\* T = u8
read_physical_memory8(mem, a) ==
    IF ~validate_physical_address(a) THEN 0 ELSE RamByte(mem, a)

write_physical_memory8(mem, a, v) ==
    IF ~validate_physical_address(a) THEN mem ELSE RamStoreByte(mem, a, v % 256)

\* T = u16, little-endian host
read_physical_memory16(mem, a) ==
    IF ~validate_physical_address(a) THEN 0
    ELSE RamByte(mem, a) + 256 * RamByte(mem, a + 1)

\* T = u32
read_physical_memory32(mem, a) ==
    IF ~validate_physical_address(a) THEN 0
    ELSE RamByte(mem, a) + 256 * RamByte(mem, a + 1)
         + 65536 * RamByte(mem, a + 2) + 16777216 * RamByte(mem, a + 3)

write_physical_memory32(mem, a, v) ==
    IF ~validate_physical_address(a) THEN mem
    ELSE LET m1 == RamStoreByte(mem, a, v % 256)
             m2 == RamStoreByte(m1, a + 1, (v \div 256) % 256)
             m3 == RamStoreByte(m2, a + 2, (v \div 65536) % 256)
         IN  RamStoreByte(m3, a + 3, (v \div 16777216) % 256)

write_physical_memory16(mem, a, v) ==
    IF ~validate_physical_address(a) THEN mem
    ELSE RamStoreByte(RamStoreByte(mem, a, v % 256), a + 1, (v \div 256) % 256)

-----------------------------------------------------------------------------
(* Memory providers and the dispatch of physical accesses:                   *)
(* CPU::register_memory_provider, CPU::memory_provider_for_address and the   *)
(* provider branches of read_physical_memory / write_physical_memory.        *)

\* the low window that providers can cover
LowMemory == 1048576

\* CPU::memory_provider_block_size
memory_provider_block_size == 16384

Blocks == 0 .. (LowMemory \div memory_provider_block_size) - 1

\* the provider objects the machine may register: name, base and size.
\* "vga" is block-aligned, "rom" starts and ends inside blocks, "small" is
\* shorter than a block, "high" ends above 1 MiB.
ProviderNames == {"vga", "rom", "small", "high"}

base_address(p) ==
    CASE p = "vga" -> 655360       \* 0xA0000
      [] p = "rom" -> 790528       \* 0xC1000
      [] p = "small" -> 851968     \* 0xD0000
      [] p = "high" -> 1032192     \* 0xFC000

provider_size(p) ==
    CASE p = "vga" -> 32768        \* 0x8000
      [] p = "rom" -> 32768        \* 0x8000
      [] p = "small" -> 4096       \* 0x1000
      [] p = "high" -> 32768       \* 0x8000

\* memset(m_memory_providers, 0, ...) in CPU::CPU; a provider's m_data is
\* zeroed by resize(); no physical access made yet
NoPhysical == [op |-> "none", addr |-> 0, size |-> 0, value |-> 0,
               served |-> "none", inside |-> TRUE]

\* no access through a segment made yet
NoSegmentAccess == [op |-> "none", descriptor |-> "none", offset |-> <<0, 0>>,
                    size |-> 0, type |-> "Read", outcome |-> "none",
                    error |-> 0]

\* CPU::reset: set_ss(0), set_ds(0), ...; ESP is m_gpr[4] = 0; no far
\* transfer made yet
NoJump == [op |-> "none", selector |-> 0, offset |-> 0, o32 |-> FALSE,
           adjustment |-> 0, outcome |-> "none", error |-> 0, link |-> FALSE,
           pushes |-> << >>, from |-> [cs |-> 0, eip |-> 0, esp |-> 0],
           code |-> << >>]

NoFarTransfer ==
    /\ m_ss = 0
    /\ m_esp = 0
    /\ m_data_segments = [r \in {"DS", "ES", "FS", "GS"} |-> 0]
    /\ jump = NoJump

NoProviders ==
    /\ m_memory_providers = [b \in Blocks |-> "null"]
    /\ provider_data = [p \in ProviderNames |-> << >>]
    /\ physical = NoPhysical

\* the loop condition of register_memory_provider: block b gets the provider
registers_block(b, p) ==
    /\ b >= base_address(p) \div memory_provider_block_size
    /\ b < (base_address(p) + provider_size(p)) \div memory_provider_block_size

\* CPU::register_memory_provider; the ASSERT_NOT_REACHED stops the emulator
register_memory_provider(p) ==
    /\ physical.op # "abort"
    /\ IF base_address(p) + provider_size(p) > LowMemory
       THEN /\ physical' = [NoPhysical EXCEPT !.op = "abort", !.served = p]
            /\ UNCHANGED m_memory_providers
       ELSE /\ m_memory_providers' =
                  [b \in Blocks |-> IF registers_block(b, p) THEN p
                                    ELSE m_memory_providers[b]]
            /\ physical' = [NoPhysical EXCEPT !.op = "register", !.served = p]
    /\ UNCHANGED <<cpuRegs, cpuFlow, loopVars, m_memory, done, last_int, xlate,
                   access, segVars, farVars, provider_data>>

memory_provider_for_address_in_every_megabyte(a) ==
    m_memory_providers[(a % LowMemory) \div memory_provider_block_size]

\* CPU::memory_provider_for_address
memory_provider_for_address(a) ==
    IF a >= LowMemory THEN "null"
    ELSE m_memory_providers[a \div memory_provider_block_size]

\* the operand lies within the provider's m_data
InsideProvider(p, a, size) ==
    a >= base_address(p) /\ a + size <= base_address(p) + provider_size(p)

\* values of up to four bytes, little-endian, in a sparse byte map
RECURSIVE LoadBytes(_, _, _)
LoadBytes(mem, a, size) ==
    IF size = 0 THEN 0
    ELSE RamByte(mem, a) + 256 * LoadBytes(mem, a + 1, size - 1)

RECURSIVE SaveBytes(_, _, _, _)
SaveBytes(mem, a, size, v) ==
    IF size = 0 THEN mem
    ELSE SaveBytes(RamStoreByte(mem, a, v % 256), a + 1, size - 1, v \div 256)

\* what a read outside an array may return
StrayValues == {0, 90}

\* the operand of the given size at a lies within the array m_memory, whose
\* indices are 0 .. m_memory_size - 1
InsideRam(a, size) == a + size <= m_memory_size

\* CPU::read_physical_memory<T> with the providers: 0 outside RAM, else the
\* provider of the block (its direct pointer or its read<T>, both at
\* address - base_address in m_data), else the RAM array.  A provider asked
\* for an operand outside its m_data reads outside the vector, and so does
\* *reinterpret_cast<T*>(&m_memory[a]) with an operand that starts in the
\* array and ends after it.
ReadPhysical(size, a) ==
    /\ physical.op # "abort"
    /\ LET p == memory_provider_for_address(a)
       IN  IF ~validate_physical_address(a)
           THEN physical' = [op |-> "read", addr |-> a, size |-> size,
                             value |-> 0, served |-> "none", inside |-> TRUE]
           ELSE IF p # "null"
           THEN IF InsideProvider(p, a, size)
                THEN physical' =
                       [op |-> "read", addr |-> a, size |-> size,
                        value |-> LoadBytes(provider_data[p],
                                            a - base_address(p), size),
                        served |-> p, inside |-> TRUE]
                ELSE \E stray \in StrayValues :
                       physical' =
                         [op |-> "read", addr |-> a, size |-> size,
                          value |-> stray, served |-> p, inside |-> FALSE]
           ELSE IF InsideRam(a, size)
           THEN physical' = [op |-> "read", addr |-> a, size |-> size,
                             value |-> LoadBytes(m_memory, a, size),
                             served |-> "ram", inside |-> TRUE]
           ELSE \E stray \in StrayValues :
                  physical' = [op |-> "read", addr |-> a, size |-> size,
                               value |-> stray, served |-> "ram",
                               inside |-> FALSE]
    /\ UNCHANGED <<cpuRegs, cpuFlow, loopVars, m_memory, done, last_int, xlate,
                   access, segVars, farVars, m_memory_providers,
                   provider_data>>

\* CPU::write_physical_memory<T> with the providers.  A provider asked to
\* store outside its m_data writes outside the vector: the model records the
\* stray write and keeps the arrays it knows unchanged.  A store to the RAM
\* array whose operand ends after the array puts its leading bytes in the
\* array and the others in whatever follows it.
WritePhysical(size, a, v) ==
    /\ physical.op # "abort"
    /\ LET p == memory_provider_for_address(a)
       IN  IF ~validate_physical_address(a)
           THEN /\ physical' = [op |-> "write", addr |-> a, size |-> size,
                                value |-> v, served |-> "none",
                                inside |-> TRUE]
                /\ UNCHANGED <<m_memory, provider_data>>
           ELSE IF p # "null"
           THEN /\ physical' = [op |-> "write", addr |-> a, size |-> size,
                                value |-> v, served |-> p,
                                inside |-> InsideProvider(p, a, size)]
                /\ provider_data' =
                     IF InsideProvider(p, a, size)
                     THEN [provider_data EXCEPT
                             ![p] = SaveBytes(@, a - base_address(p), size, v)]
                     ELSE provider_data
                /\ UNCHANGED m_memory
           ELSE /\ physical' = [op |-> "write", addr |-> a, size |-> size,
                                value |-> v, served |-> "ram",
                                inside |-> InsideRam(a, size)]
                /\ m_memory' =
                     IF InsideRam(a, size) THEN SaveBytes(m_memory, a, size, v)
                     ELSE SaveBytes(m_memory, a, m_memory_size - a, v)
                /\ UNCHANGED provider_data
    /\ UNCHANGED <<cpuRegs, cpuFlow, loopVars, done, last_int, xlate, access,
                   segVars, farVars, m_memory_providers>>

-----------------------------------------------------------------------------
(* Register file *)

Regs == {"EAX", "ECX", "EDX", "EBX", "ESP", "EBP", "ESI", "EDI"}
ControlRegs == {"CR0", "CR2", "CR3", "CR4"}
DebugRegs == 0 .. 7

\* DescriptorTableRegister::clear()
EmptyTable == [base |-> 0, limit |-> 0]
\* a table the guest loads with LGDT / LIDT / LLDT
GuestTable == [base |-> 4096, limit |-> 255]

NoSegmentPrefix == "None"

\* EFLAGS with every modelled bit clear
ZeroFlags == [cf |-> FALSE, pf |-> FALSE, af |-> FALSE, zf |-> FALSE,
              sf |-> FALSE, tf |-> FALSE, if |-> FALSE, df |-> FALSE,
              of |-> FALSE, iopl |-> 0, nt |-> FALSE, rf |-> FALSE,
              vm |-> FALSE, ac |-> FALSE, vif |-> FALSE, vip |-> FALSE,
              id |-> FALSE]

\* CPU::set_flags(u16): load the low word of EFLAGS from its image
set_flags(f, image) ==
    [f EXCEPT !.cf = HasBit(image, 1),    !.pf = HasBit(image, 4),
              !.af = HasBit(image, 16),   !.zf = HasBit(image, 64),
              !.sf = HasBit(image, 128),  !.tf = HasBit(image, 256),
              !.if = HasBit(image, 512),  !.df = HasBit(image, 1024),
              !.of = HasBit(image, 2048), !.iopl = (image \div 4096) % 4,
              !.nt = HasBit(image, 16384)]

set_iopl(f, v) == [f EXCEPT !.iopl = v]

get_if == m_flags.if
get_tf == m_flags.tf
\* CR0 is kept as the set of the positions of its set bits, which keeps bit
\* 31 (PG) apart from the sign of a 32-bit integer: CR0 = 0 is the empty set
PE == 0
WP == 16
PG == 31
get_vm == m_flags.vm
get_pe == PE \in m_cr0
get_pg == PG \in m_cr0

\* machine().settings().entry_cs() / entry_ip() of an autotest machine
EntryCS == 4096
EntryIP == 256
\* the BIOS entry point F000:0000
BiosCS == 61440
BiosIP == 0

-----------------------------------------------------------------------------
(* Interrupt delivery: CPU::interrupt.  The main-loop specifications keep    *)
(* its effect on EFLAGS, CS:EIP and CPL; the frame it pushes is not part of  *)
(* them.  In protected mode the IDT entry is guest data: the gate kind is an *)
(* input of the delivery and the handler is a ring-0 code segment.           *)

GateKinds == {"InterruptGate", "TrapGate"}
\* selector and offset stored in the guest's IDT gates
GateSelector == 8
GateOffset == 512

\* CPU::realModeInterrupt: vector from the IVT, IF and TF cleared
realModeInterrupt(isr) ==
    [flags |-> [m_flags EXCEPT !.if = FALSE, !.tf = FALSE],
     cs    |-> read_physical_memory16(m_memory, isr * 4 + 2),
     eip   |-> read_physical_memory16(m_memory, isr * 4),
     cpl   |-> cpl]

\* CPU::protectedModeInterrupt through an interrupt or trap gate
protectedModeInterrupt(isr, gate) ==
    [flags |-> [m_flags EXCEPT !.if = IF gate = "TrapGate" THEN @ ELSE FALSE,
                               !.tf = FALSE, !.rf = FALSE, !.nt = FALSE],
     cs    |-> GateSelector,
     eip   |-> GateOffset,
     cpl   |-> 0]

\* CPU::interrupt: the state of <<m_flags, m_cs, m_eip, cpl>> it leaves
interrupt(isr, gate) ==
    IF get_pe THEN protectedModeInterrupt(isr, gate) ELSE realModeInterrupt(isr)

\* assign the outcome of a delivery
Deliver(isr, source, gate) ==
    LET r == interrupt(isr, gate)
    IN  /\ m_flags' = r.flags
        /\ m_cs' = r.cs
        /\ m_eip' = r.eip
        /\ cpl' = r.cpl
        /\ last_int' = [isr |-> isr, source |-> source]

NoInterrupt == [isr |-> -1, source |-> "None"]

\* the vector the PIC hands to the CPU for the timer IRQ
IRQVector == 8

-----------------------------------------------------------------------------
(* Reset: CPU::reset, CPU::hard_reboot, and the slow-path flag *)

\* CPU::recompute_main_loop_needs_slow_stuff; options.trace is off and the
\* breakpoint and watch lists are empty in these specifications
recompute_main_loop_needs_slow_stuff(request, reboot, active) ==
    request # "NoDebuggerRequest" \/ reboot \/ active

\* the register state CPU::reset leaves
ResetFlags == set_iopl(set_flags(ZeroFlags, 512), 3)
ResetCS(autotest) == IF autotest THEN EntryCS ELSE BiosCS
ResetEIP(autotest) == IF autotest THEN EntryIP ELSE BiosIP

reset_forgets_debug_registers ==
    /\ m_next_instruction_is_uninterruptible' = FALSE
    /\ m_gpr' = [r \in Regs |-> 0]
    /\ m_cr0' = {} /\ m_cr2' = 0 /\ m_cr3' = 0 /\ m_cr4' = 0
    /\ m_dr' = m_dr
    /\ m_gdtr' = EmptyTable /\ m_idtr' = EmptyTable /\ m_ldtr' = EmptyTable
    /\ m_segment_prefix' = NoSegmentPrefix
    /\ m_cs' = ResetCS(m_is_for_autotest)
    /\ m_eip' = ResetEIP(m_is_for_autotest)
    /\ cpl' = 0
    /\ m_flags' = ResetFlags
    /\ m_state' = "Alive"
    /\ m_cycle' = 0
    /\ m_main_loop_needs_slow_stuff' =
          recompute_main_loop_needs_slow_stuff(m_debugger_request,
                                               m_should_hard_reboot,
                                               debugger_active)

\* CPU::reset
reset ==
    /\ m_next_instruction_is_uninterruptible' = FALSE
    /\ m_gpr' = [r \in Regs |-> 0]
    /\ m_cr0' = {} /\ m_cr2' = 0 /\ m_cr3' = 0 /\ m_cr4' = 0
    /\ m_dr' = [n \in DebugRegs |-> 0]
    /\ m_gdtr' = EmptyTable /\ m_idtr' = EmptyTable /\ m_ldtr' = EmptyTable
    /\ m_segment_prefix' = NoSegmentPrefix
    /\ m_cs' = ResetCS(m_is_for_autotest)
    /\ m_eip' = ResetEIP(m_is_for_autotest)
    /\ cpl' = 0
    /\ m_flags' = ResetFlags
    /\ m_state' = "Alive"
    /\ m_cycle' = 0
    /\ m_main_loop_needs_slow_stuff' =
          recompute_main_loop_needs_slow_stuff(m_debugger_request,
                                               m_should_hard_reboot,
                                               debugger_active)

\* CPU::hard_reboot: reset the devices (the PIC drops its pending request),
\* reset the CPU, clear the latch
hard_reboot ==
    /\ pic_pending' = FALSE
    /\ irq_skipped' = FALSE
    /\ reset
    /\ m_should_hard_reboot' = FALSE
    /\ UNCHANGED <<m_debugger_request, debugger_active, m_is_for_autotest,
                   m_memory, last_int, xlate, extVars>>

\* the idle value of the page-walk observation
NoXlate ==
    [kind |-> "none", lin |-> 0, access |-> "Read", ecpl |-> 255,
     pdeAddress |-> 0, pteAddress |-> 0, pde |-> 0, pte |-> 0,
     vector |-> 0, error |-> 0, table |-> "-", phys |-> 0,
     before |-> ZeroedMemory]

\* no memory access made yet; the fields are those of read_memory and
\* write_memory: the operation, the operand size in bytes, the linear
\* address, the value read or written, the byte or operand accesses made to
\* physical memory in order, and how it ended ("ok", "pf" or "abort")
NoAccess == [op |-> "none", size |-> 0, lin |-> 0, type |-> "Read",
             value |-> 0, steps |-> << >>, outcome |-> "none", error |-> 0]

\* the state after CPU::CPU
InitMainLoop ==
    /\ m_is_for_autotest \in BOOLEAN
    /\ irq_skipped = FALSE
    /\ m_memory = ZeroedMemory
    /\ m_should_hard_reboot = FALSE
    /\ m_debugger_request = "NoDebuggerRequest"
    /\ debugger_active = FALSE
    /\ pic_pending = FALSE
    /\ m_next_instruction_is_uninterruptible = FALSE
    /\ m_gpr = [r \in Regs |-> 0]
    /\ m_cr0 = {} /\ m_cr2 = 0 /\ m_cr3 = 0 /\ m_cr4 = 0
    /\ m_dr = [n \in DebugRegs |-> 0]
    /\ m_gdtr = EmptyTable /\ m_idtr = EmptyTable /\ m_ldtr = EmptyTable
    /\ m_segment_prefix = NoSegmentPrefix
    /\ m_cs = ResetCS(m_is_for_autotest)
    /\ m_eip = ResetEIP(m_is_for_autotest)
    /\ cpl = 0
    /\ m_flags = ResetFlags
    /\ m_state = "Alive"
    /\ m_cycle = 0
    /\ m_main_loop_needs_slow_stuff = FALSE
    /\ pc = "top"
    /\ done = "construct"
    /\ last_int = NoInterrupt
    /\ xlate = NoXlate
    /\ access = NoAccess
    /\ NoProviders
    /\ seg = NoSegmentAccess
    /\ NoFarTransfer

-----------------------------------------------------------------------------
(* The external world: the PIC's IRQ line and the command latch *)

Commands == {"EnterDebugger", "ExitDebugger", "HardReboot"}

\* a device raises its line: the PIC now has a pending request
RaiseIRQ ==
    /\ ~pic_pending
    /\ pic_pending' = TRUE
    /\ UNCHANGED <<cpuRegs, cpuFlow, m_memory, done, last_int, xlate, extVars,
                   m_next_instruction_is_uninterruptible, m_state, m_cycle,
                   m_should_hard_reboot, m_debugger_request,
                   m_main_loop_needs_slow_stuff, m_is_for_autotest, irq_skipped,
                   debugger_active, pc>>

queue_command_without_recompute(command) ==
    /\ m_debugger_request' =
          CASE command = "EnterDebugger" -> "PleaseEnterDebugger"
            [] command = "ExitDebugger"  -> "PleaseExitDebugger"
            [] OTHER                     -> m_debugger_request
    /\ m_should_hard_reboot' =
          (IF command = "HardReboot" THEN TRUE ELSE m_should_hard_reboot)
    /\ m_main_loop_needs_slow_stuff' = m_main_loop_needs_slow_stuff
    /\ UNCHANGED <<cpuRegs, cpuFlow, m_memory, done, last_int, xlate, extVars,
                   m_next_instruction_is_uninterruptible, m_state, m_cycle,
                   m_is_for_autotest, irq_skipped, debugger_active, pic_pending, pc>>

\* CPU::queue_command
queue_command(command) ==
    /\ m_debugger_request' =
          CASE command = "EnterDebugger" -> "PleaseEnterDebugger"
            [] command = "ExitDebugger"  -> "PleaseExitDebugger"
            [] OTHER                     -> m_debugger_request
    /\ m_should_hard_reboot' =
          (IF command = "HardReboot" THEN TRUE ELSE m_should_hard_reboot)
    /\ m_main_loop_needs_slow_stuff' =
          recompute_main_loop_needs_slow_stuff(m_debugger_request',
                                               m_should_hard_reboot',
                                               debugger_active)
    /\ UNCHANGED <<cpuRegs, cpuFlow, m_memory, done, last_int, xlate, extVars,
                   m_next_instruction_is_uninterruptible, m_state, m_cycle,
                   m_is_for_autotest, irq_skipped, debugger_active, pic_pending, pc>>

\* PIC::service_irq(cpu): acknowledge the request, wake a halted CPU and
\* deliver the vector as an external interrupt
service_irq(gate) ==
    /\ pic_pending' = FALSE
    /\ m_state' = "Alive"
    /\ Deliver(IRQVector, "External", gate)

-----------------------------------------------------------------------------
(* The main loop: CPU::main_loop *)

\* Debugger::do_console returns with the debugger still active (the user
\* single-steps) or left (the user continues); leaving it is Debugger::exit
ConsoleOutcomes == BOOLEAN

\* CPU::main_loop_slow_stuff when no reboot is latched: serve the debugger
\* request (recomputing the slow-path flag), then run the console while the
\* debugger is active; a console that leaves the debugger recomputes the flag
slow_stuff_debugger(stay) ==
    LET entered == CASE m_debugger_request = "PleaseEnterDebugger" -> TRUE
                     [] m_debugger_request = "PleaseExitDebugger"  -> FALSE
                     [] OTHER -> debugger_active
        active  == entered /\ stay
    IN  /\ m_debugger_request' = "NoDebuggerRequest"
        /\ debugger_active' = active
        /\ m_main_loop_needs_slow_stuff' =
              IF m_debugger_request # "NoDebuggerRequest" \/ (entered /\ ~stay)
              THEN recompute_main_loop_needs_slow_stuff("NoDebuggerRequest",
                                                   m_should_hard_reboot, active)
              ELSE m_main_loop_needs_slow_stuff

\* main_loop, lines 501-503: the slow-path check at the top of an iteration
MainLoopTop ==
    /\ pc = "top"
    /\ pc' = "exec"
    /\ IF m_main_loop_needs_slow_stuff
       THEN IF m_should_hard_reboot
            THEN /\ hard_reboot
                 /\ done' = "reboot"
            ELSE /\ \E stay \in ConsoleOutcomes : slow_stuff_debugger(stay)
                 /\ done' = "slow"
                 /\ UNCHANGED <<cpuRegs, cpuFlow, m_memory, last_int, xlate, extVars,
                                m_next_instruction_is_uninterruptible, m_state,
                                m_cycle, m_should_hard_reboot,
                                m_is_for_autotest, irq_skipped, pic_pending>>
       ELSE /\ done' = "fast"
            /\ UNCHANGED <<cpuRegs, cpuFlow, m_memory, last_int, xlate, extVars,
                           m_next_instruction_is_uninterruptible, m_state,
                           m_cycle, m_should_hard_reboot, m_debugger_request,
                           m_main_loop_needs_slow_stuff, m_is_for_autotest, irq_skipped,
                           debugger_active, pic_pending>>


-----------------------------------------------------------------------------
(* Guest instructions.  The decoder and most handlers are inputs of the    *)
(* main loop: an instruction is drawn from a small set of kinds, each with *)
(* the architectural effect the main loop can observe.                     *)

Insns ==
    [op : {"NOP", "STI", "CLI", "POPF_TF", "MOV_SS", "HLT", "INT", "UD",
           "RING3", "LGDT", "LIDT", "LLDT"}, arg : {"-"}]
    \cup [op : {"MOV_GPR"}, arg : Regs]
    \cup [op : {"MOV_CR"}, arg : ControlRegs]
    \cup [op : {"MOV_DR"}, arg : DebugRegs]

\* instructions that raise #GP(0) outside ring 0
Privileged == {"HLT", "MOV_CR", "MOV_DR", "LGDT", "LIDT", "LLDT"}

\* the value a MOV/LGDT of the guest stores
GuestValue == 1
\* bytes the decoder consumed for the instruction
InsnLength == 1
\* the vector of the guest's INT instruction
SoftIntVector == 33
\* selector of the guest's ring-3 code segment
UserCS == 27

\* how many registers the guest has loaded since the last reset
Loaded ==
    Cardinality({r \in Regs : m_gpr[r] # 0})
    + Cardinality({n \in DebugRegs : m_dr[n] # 0})
    + (IF m_cr0 # {} THEN 1 ELSE 0) + (IF m_cr2 # 0 THEN 1 ELSE 0)
    + (IF m_cr3 # 0 THEN 1 ELSE 0) + (IF m_cr4 # 0 THEN 1 ELSE 0)
    + (IF m_gdtr # EmptyTable THEN 1 ELSE 0)
    + (IF m_idtr # EmptyTable THEN 1 ELSE 0)
    + (IF m_ldtr # EmptyTable THEN 1 ELSE 0)

Loads == {"MOV_GPR", "MOV_CR", "MOV_DR", "LGDT", "LIDT", "LLDT"}

Faults(i) ==
    \/ i.op = "UD"
    \/ i.op \in Privileged /\ cpl # 0

FaultVector(i) == IF i.op = "UD" THEN 6 ELSE 13

\* execute_one_instruction, catch (Exception e): raise_exception(e) puts EIP
\* back to the instruction's base and delivers the exception; ++m_cycle in
\* CPU::execute is not reached
ExecuteFaulting(i, gate) ==
    /\ Deliver(FaultVector(i), "Internal", gate)
    /\ pc' = "post"
    /\ done' = "fault"
    /\ UNCHANGED <<cpuRegs, m_memory, xlate, extVars,
                   m_next_instruction_is_uninterruptible, m_state, m_cycle,
                   m_should_hard_reboot, m_debugger_request,
                   m_main_loop_needs_slow_stuff, m_is_for_autotest, irq_skipped,
                   debugger_active, pic_pending>>

\* CPU::_HLT at CPL 0: set_state(Halted), then halted_loop() is entered;
\* CPU::execute has not yet counted the instruction
HLT_enters_running ==
    /\ m_state' = "Alive"
    /\ pc' = "post"
    /\ m_eip' = m_eip + InsnLength
    /\ m_cycle' = m_cycle + 1
    /\ done' = "hlt"
    /\ UNCHANGED <<cpuRegs, m_flags, m_cs, cpl, m_memory, last_int, xlate, extVars,
                   m_next_instruction_is_uninterruptible,
                   m_should_hard_reboot, m_debugger_request,
                   m_main_loop_needs_slow_stuff, m_is_for_autotest, irq_skipped,
                   debugger_active, pic_pending>>

_HLT ==
    /\ m_state' = "Halted"
    /\ pc' = "halted"
    /\ m_eip' = m_eip + InsnLength
    /\ done' = "hlt"
    /\ UNCHANGED <<cpuRegs, m_flags, m_cs, cpl, m_memory, last_int, xlate, extVars,
                   m_next_instruction_is_uninterruptible, m_cycle,
                   m_should_hard_reboot, m_debugger_request,
                   m_main_loop_needs_slow_stuff, m_is_for_autotest, irq_skipped,
                   debugger_active, pic_pending>>

\* the INT n instruction: CPU::_INT_imm8
INT_imm8(gate) ==
    /\ Deliver(SoftIntVector, "Internal", gate)
    /\ m_cycle' = m_cycle + 1
    /\ pc' = "post"
    /\ done' = "insn"
    /\ UNCHANGED <<cpuRegs, m_memory, xlate, extVars,
                   m_next_instruction_is_uninterruptible, m_state,
                   m_should_hard_reboot, m_debugger_request,
                   m_main_loop_needs_slow_stuff, m_is_for_autotest, irq_skipped,
                   debugger_active, pic_pending>>

\* every other instruction: its register effect, EIP past the instruction,
\* CPU::execute counts it
ExecuteSimple(i) ==
    /\ m_gpr' = IF i.op = "MOV_GPR" THEN [m_gpr EXCEPT ![i.arg] = GuestValue]
                ELSE m_gpr
    /\ m_cr0' = IF i.op = "MOV_CR" /\ i.arg = "CR0" THEN {PE} ELSE m_cr0
    /\ m_cr2' = IF i.op = "MOV_CR" /\ i.arg = "CR2" THEN GuestValue ELSE m_cr2
    /\ m_cr3' = IF i.op = "MOV_CR" /\ i.arg = "CR3" THEN GuestValue ELSE m_cr3
    /\ m_cr4' = IF i.op = "MOV_CR" /\ i.arg = "CR4" THEN GuestValue ELSE m_cr4
    /\ m_dr' = IF i.op = "MOV_DR" THEN [m_dr EXCEPT ![i.arg] = GuestValue]
               ELSE m_dr
    /\ m_gdtr' = IF i.op = "LGDT" THEN GuestTable ELSE m_gdtr
    /\ m_idtr' = IF i.op = "LIDT" THEN GuestTable ELSE m_idtr
    /\ m_ldtr' = IF i.op = "LLDT" THEN GuestTable ELSE m_ldtr
    /\ m_segment_prefix' = NoSegmentPrefix
    /\ m_flags' = CASE i.op = "STI"     -> [m_flags EXCEPT !.if = TRUE]
                    [] i.op = "CLI"     -> [m_flags EXCEPT !.if = FALSE]
                    [] i.op = "POPF_TF" -> [m_flags EXCEPT !.tf = TRUE]
                    [] OTHER            -> m_flags
    /\ m_next_instruction_is_uninterruptible' =
          (IF i.op \in {"STI", "MOV_SS"} THEN TRUE
           ELSE m_next_instruction_is_uninterruptible)
    /\ m_cs' = IF i.op = "RING3" THEN UserCS ELSE m_cs
    /\ cpl' = IF i.op = "RING3" THEN 3 ELSE cpl
    /\ m_eip' = IF i.op = "RING3" THEN 0 ELSE m_eip + InsnLength
    /\ m_cycle' = m_cycle + 1
    /\ pc' = "post"
    /\ done' = "insn"
    /\ UNCHANGED <<m_memory, last_int, xlate, extVars, m_state, m_should_hard_reboot,
                   m_debugger_request, m_main_loop_needs_slow_stuff,
                   m_is_for_autotest, irq_skipped, debugger_active, pic_pending>>

\* CPU::execute_one_instruction, main_loop line 505
execute_one_instruction(i) ==
    /\ pc = "exec"
    /\ m_cycle < MaxCycle
    /\ i.op = "RING3" => get_pe
    /\ i.op \in Loads => Loaded < MaxLoaded
    /\ IF Faults(i) THEN \E gate \in GateKinds : ExecuteFaulting(i, gate)
       ELSE IF i.op = "HLT" THEN _HLT
       ELSE IF i.op = "INT" THEN \E gate \in GateKinds : INT_imm8(gate)
       ELSE ExecuteSimple(i)


\* Debugger::do_console inside halted_loop: only the debugger's own state
\* (and the slow-path flag, through Debugger::exit) can change
halted_console(stay) ==
    /\ debugger_active' = (debugger_active /\ stay)
    /\ m_main_loop_needs_slow_stuff' =
          IF debugger_active /\ ~stay
          THEN recompute_main_loop_needs_slow_stuff(m_debugger_request,
                                                   m_should_hard_reboot, FALSE)
          ELSE m_main_loop_needs_slow_stuff

halted_loop_ignores_IF ==
    /\ pc = "halted"
    /\ IF m_should_hard_reboot
       THEN /\ hard_reboot
            /\ pc' = "hlt_ret"
            /\ done' = "reboot"
       ELSE /\ \E stay \in ConsoleOutcomes : halted_console(stay)
            /\ IF pic_pending
               THEN /\ \E gate \in GateKinds : service_irq(gate)
                    /\ pc' = "hlt_ret"
                    /\ done' = "irq"
               ELSE /\ pc' = "halted"
                    /\ done' = "idle"
                    /\ UNCHANGED <<cpuFlow, last_int, m_state, pic_pending>>
            /\ UNCHANGED <<cpuRegs, m_memory, xlate, extVars,
                           m_next_instruction_is_uninterruptible, m_cycle,
                           m_should_hard_reboot, m_debugger_request,
                           m_is_for_autotest, irq_skipped>>

\* CPU::halted_loop: one iteration of the while loop; the loop is left by the
\* return after a hard reboot or when the state is no longer Halted
halted_loop ==
    /\ pc = "halted"
    /\ IF m_should_hard_reboot
       THEN /\ hard_reboot
            /\ pc' = "hlt_ret"
            /\ done' = "reboot"
       ELSE /\ \E stay \in ConsoleOutcomes : halted_console(stay)
            /\ IF pic_pending /\ get_if
               THEN /\ \E gate \in GateKinds : service_irq(gate)
                    /\ pc' = "hlt_ret"
                    /\ done' = "irq"
               ELSE /\ pc' = "halted"
                    /\ done' = "idle"
                    /\ UNCHANGED <<cpuFlow, last_int, m_state, pic_pending>>
            /\ UNCHANGED <<cpuRegs, m_memory, xlate, extVars,
                           m_next_instruction_is_uninterruptible, m_cycle,
                           m_should_hard_reboot, m_debugger_request,
                           m_is_for_autotest, irq_skipped>>

\* halted_loop has returned to _HLT and _HLT to CPU::execute: ++m_cycle
HltReturn ==
    /\ pc = "hlt_ret"
    /\ m_cycle' = m_cycle + 1
    /\ pc' = "post"
    /\ done' = "hlt_ret"
    /\ UNCHANGED <<cpuRegs, cpuFlow, m_memory, last_int, xlate, extVars,
                   m_next_instruction_is_uninterruptible, m_state,
                   m_should_hard_reboot, m_debugger_request,
                   m_main_loop_needs_slow_stuff, m_is_for_autotest, irq_skipped,
                   debugger_active, pic_pending>>

MainLoopAfterInstruction_never_skips ==
    /\ pc = "post"
    /\ IF get_tf
       THEN /\ \E gate \in GateKinds : Deliver(1, "Internal", gate)
            /\ done' = "db"
       ELSE /\ done' = "nodb"
            /\ UNCHANGED <<cpuFlow, last_int>>
    /\ pc' = "irq"
    /\ UNCHANGED m_next_instruction_is_uninterruptible
    /\ UNCHANGED <<cpuRegs, m_memory, xlate, extVars, m_state, m_cycle,
                   m_should_hard_reboot, m_debugger_request,
                   m_main_loop_needs_slow_stuff, m_is_for_autotest, irq_skipped,
                   debugger_active, pic_pending>>

MainLoopAfterInstruction_no_single_step ==
    /\ pc = "post"
    /\ IF m_next_instruction_is_uninterruptible
       THEN /\ m_next_instruction_is_uninterruptible' = FALSE
            /\ pc' = "top"
            /\ done' = "skip"
       ELSE /\ done' = "nodb"
            /\ pc' = "irq"
            /\ UNCHANGED m_next_instruction_is_uninterruptible
    /\ UNCHANGED <<cpuFlow, last_int>>
    /\ UNCHANGED <<cpuRegs, m_memory, xlate, extVars, m_state, m_cycle,
                   m_should_hard_reboot, m_debugger_request,
                   m_main_loop_needs_slow_stuff, m_is_for_autotest, irq_skipped,
                   debugger_active, pic_pending>>

\* main_loop, lines 510-522: the uninterruptible-next skip, then the TF check
MainLoopAfterInstruction ==
    /\ pc = "post"
    /\ IF m_next_instruction_is_uninterruptible
       THEN /\ m_next_instruction_is_uninterruptible' = FALSE
            /\ pc' = "top"
            /\ done' = "skip"
            /\ irq_skipped' = (pic_pending /\ get_if)
            /\ UNCHANGED <<cpuFlow, last_int>>
       ELSE /\ IF get_tf
               THEN /\ \E gate \in GateKinds : Deliver(1, "Internal", gate)
                    /\ done' = "db"
               ELSE /\ done' = "nodb"
                    /\ UNCHANGED <<cpuFlow, last_int>>
            /\ pc' = "irq"
            /\ UNCHANGED <<m_next_instruction_is_uninterruptible, irq_skipped>>
    /\ UNCHANGED <<cpuRegs, m_memory, xlate, extVars, m_state, m_cycle,
                   m_should_hard_reboot, m_debugger_request,
                   m_main_loop_needs_slow_stuff, m_is_for_autotest,
                   debugger_active, pic_pending>>

\* main_loop, lines 524-525: the IRQ check that ends the iteration
MainLoopIrqCheck ==
    /\ pc = "irq"
    /\ IF pic_pending /\ get_if
       THEN /\ \E gate \in GateKinds : service_irq(gate)
            /\ done' = "irq"
       ELSE /\ done' = "noirq"
            /\ UNCHANGED <<cpuFlow, last_int, m_state, pic_pending>>
    /\ pc' = "top"
    /\ irq_skipped' = FALSE
    /\ UNCHANGED <<cpuRegs, m_memory, xlate, extVars,
                   m_next_instruction_is_uninterruptible, m_cycle,
                   m_should_hard_reboot, m_debugger_request,
                   m_main_loop_needs_slow_stuff, m_is_for_autotest,
                   debugger_active>>

\* the instructions the main loop's control flow can tell apart: everything
\* but the register loads other than MOV CR0 (which sets PE)
ControlInsns ==
    {i \in Insns : i.op \notin Loads \/ (i.op = "MOV_CR" /\ i.arg = "CR0")}

\* a step of the CPU thread, its instructions drawn from I
CpuStepOn(I) ==
    \/ MainLoopTop
    \/ \E i \in I : execute_one_instruction(i)
    \/ halted_loop
    \/ HltReturn
    \/ MainLoopAfterInstruction
    \/ MainLoopIrqCheck

CpuStep == CpuStepOn(ControlInsns)

\* a step of the world around the CPU thread
WorldStep ==
    \/ RaiseIRQ
    \/ \E c \in Commands : queue_command(c)

Next == CpuStep \/ WorldStep

\* The main loop with every command and every control-flow instruction
Spec == InitMainLoop /\ [][Next]_vars

\* the CPU thread keeps running: it is the process's only thread of control
SpecFair == Spec /\ WF_vars(CpuStep)

\* The main loop with every instruction, register loads included, and the
\* reboot command
NextReset ==
    \/ CpuStepOn(Insns)
    \/ RaiseIRQ
    \/ queue_command("HardReboot")

SpecReset == InitMainLoop /\ [][NextReset]_vars

-----------------------------------------------------------------------------
(* A real-mode guest that stores to RAM and is then rebooted *)

\* offsets of the guest's stores
StoreOffsets == {1280, 65535}

\* _MOV_moff8_AL (src/x86/mov.cpp 236-242) in real mode with paging off:
\* writeMemory8(currentSegment(), offset, AL) stores AL at DS * 16 + offset
_MOV_moff8_AL(offset) ==
    /\ pc = "exec"
    /\ m_cycle < MaxCycle
    /\ ~get_pe
    /\ m_memory' = write_physical_memory8(m_memory,
                                          m_data_segments.DS * 16 + offset,
                                          m_gpr.EAX % 256)
    /\ m_segment_prefix' = NoSegmentPrefix
    /\ m_eip' = m_eip + InsnLength
    /\ m_cycle' = m_cycle + 1
    /\ pc' = "post"
    /\ done' = "insn"
    /\ UNCHANGED <<m_gpr, m_cr0, m_cr2, m_cr3, m_cr4, m_dr, m_gdtr, m_idtr,
                   m_ldtr, m_flags, m_cs, cpl, last_int, xlate, extVars,
                   m_next_instruction_is_uninterruptible, m_state,
                   m_should_hard_reboot, m_debugger_request,
                   m_main_loop_needs_slow_stuff, m_is_for_autotest,
                   irq_skipped, debugger_active, pic_pending>>

\* the other instructions of this guest: it loads AL, idles and halts
StoreInsns ==
    {i \in Insns : i.op \in {"NOP", "HLT"}
                   \/ (i.op = "MOV_GPR" /\ i.arg = "EAX")}

NextStoreReset ==
    \/ CpuStepOn(StoreInsns)
    \/ \E offset \in StoreOffsets : _MOV_moff8_AL(offset)
    \/ RaiseIRQ
    \/ queue_command("HardReboot")

SpecStoreReset == InitMainLoop /\ [][NextStoreReset]_vars

-----------------------------------------------------------------------------
(* Paging: CPU::translate_address and the two-level page walk *)

\* PageTableEntryFlags
PageTableEntryFlags_Present == 1
PageTableEntryFlags_ReadWrite == 2
PageTableEntryFlags_UserSupervisor == 4
PageTableEntryFlags_Accessed == 32
PageTableEntryFlags_Dirty == 64

\* PageFaultFlags
PageFaultFlags_NotPresent == 0
PageFaultFlags_ProtectionViolation == 1
PageFaultFlags_Read == 0
PageFaultFlags_Write == 2
PageFaultFlags_SupervisorMode == 0
PageFaultFlags_UserMode == 4
PageFaultFlags_InstructionFetch == 16

\* CPU::MemoryAccessType of the accesses a guest instruction makes
AccessTypes == {"Read", "Write", "Execute"}

\* the effectiveCPL argument: 0xff (none, the default), 0 (read_memory_metal
\* and write_memory_metal) or 3
NoEffectiveCPL == 255
EffectiveCPLs == {NoEffectiveCPL, 0, 3}

makePFErrorCode_without_fetch_bit(flags, accessType, inUser) ==
    flags
    + (IF accessType = "Write" THEN PageFaultFlags_Write
       ELSE PageFaultFlags_Read)
    + (IF inUser THEN PageFaultFlags_UserMode
       ELSE PageFaultFlags_SupervisorMode)

\* makePFErrorCode: the flags are distinct bits, so | is +
makePFErrorCode(flags, accessType, inUser) ==
    flags
    + (IF accessType = "Write" THEN PageFaultFlags_Write
       ELSE PageFaultFlags_Read)
    + (IF inUser THEN PageFaultFlags_UserMode
       ELSE PageFaultFlags_SupervisorMode)
    + (IF accessType = "Execute" THEN PageFaultFlags_InstructionFetch ELSE 0)

inUserMode_ignores_override(effectiveCPL) == cpl = 3

\* translate_address_slow_case, lines 1233-1237
inUserMode(effectiveCPL) ==
    IF effectiveCPL = NoEffectiveCPL THEN cpl = 3 ELSE effectiveCPL = 3

RequiresReadWrite_ignores_WP(inUser, accessType) ==
    inUser /\ accessType = "Write"

\* translate_address_slow_case, line 1256: the condition of the R/W check
RequiresReadWrite(inUser, accessType) ==
    (inUser \/ WP \in m_cr0) /\ accessType = "Write"

MarkedPTE_always_dirty(pte, accessType) ==
    SetBit(SetBit(pte, PageTableEntryFlags_Dirty), PageTableEntryFlags_Accessed)

\* translate_address_slow_case, lines 1265-1269: the page table entry that
\* is written back
MarkedPTE(pte, accessType) ==
    SetBit(IF accessType = "Write"
           THEN SetBit(pte, PageTableEntryFlags_Dirty)
           ELSE pte,
           PageTableEntryFlags_Accessed)

\* CPU::translate_address_slow_case: the outcome of the walk when physical
\* memory holds mem.  A failed ASSERT stops the emulator ("abort"); a fault is the
\* Exception that CPU::PageFault builds; success carries the memory with
\* both entries written back, the directory entry first.
translate_address_slow_case_in(mem, lin, accessType, effectiveCPL) ==
    LET dir        == (lin \div 4194304) % 1024
        page       == (lin \div 4096) % 1024
        offset     == lin % 4096
        pdeAddress == m_cr3 + dir * 4
        pde        == read_physical_memory32(mem, pdeAddress)
        pteAddress == PageFrame(pde) + page * 4
        pte        == read_physical_memory32(mem, pteAddress)
        inUser     == inUserMode(effectiveCPL)
        walk       == [NoXlate EXCEPT !.lin = lin, !.access = accessType,
                                      !.ecpl = effectiveCPL,
                                      !.pdeAddress = pdeAddress,
                                      !.pteAddress = pteAddress,
                                      !.pde = pde, !.pte = pte,
                                      !.before = mem]
        PageFault(flags, faultTable) ==
            [out |-> [walk EXCEPT !.kind = "pf", !.vector = 14,
                                  !.error = makePFErrorCode(flags, accessType,
                                                            inUser),
                                  !.table = faultTable],
             cr2 |-> lin,
             mem |-> mem]
        newPDE     == SetBit(pde, PageTableEntryFlags_Accessed)
        newPTE     == MarkedPTE(pte, accessType)
    IN  IF ~(m_cr3 < m_memory_size) \/ m_cr3 % 1024 # 0
        THEN [out |-> [NoXlate EXCEPT !.kind = "abort", !.lin = lin,
                                      !.access = accessType,
                                      !.ecpl = effectiveCPL,
                                      !.before = mem],
              cr2 |-> m_cr2, mem |-> mem]
        ELSE IF ~HasBit(pde, PageTableEntryFlags_Present)
        THEN PageFault(PageFaultFlags_NotPresent, "PDE")
        ELSE IF ~HasBit(pte, PageTableEntryFlags_Present)
        THEN PageFault(PageFaultFlags_NotPresent, "PTE")
        ELSE IF inUser /\ ~HasBit(pde, PageTableEntryFlags_UserSupervisor)
        THEN PageFault(PageFaultFlags_ProtectionViolation, "PDE")
        ELSE IF inUser /\ ~HasBit(pte, PageTableEntryFlags_UserSupervisor)
        THEN PageFault(PageFaultFlags_ProtectionViolation, "PTE")
        ELSE IF RequiresReadWrite(inUser, accessType)
                /\ ~HasBit(pde, PageTableEntryFlags_ReadWrite)
        THEN PageFault(PageFaultFlags_ProtectionViolation, "PDE")
        ELSE IF RequiresReadWrite(inUser, accessType)
                /\ ~HasBit(pte, PageTableEntryFlags_ReadWrite)
        THEN PageFault(PageFaultFlags_ProtectionViolation, "PTE")
        ELSE [out |-> [walk EXCEPT !.kind = "ok",
                                   !.phys = PageFrame(newPTE) + offset],
              cr2 |-> m_cr2,
              mem |-> write_physical_memory32(
                          write_physical_memory32(mem, pdeAddress, newPDE),
                          pteAddress, newPTE)]

\* the walk in the current state's memory
translate_address_slow_case(lin, accessType, effectiveCPL) ==
    translate_address_slow_case_in(m_memory, lin, accessType, effectiveCPL)

\* CPU::translate_address: the identity without PE and PG, else the walk
translate_address(lin, accessType, effectiveCPL) ==
    /\ xlate.kind # "abort"
    /\ IF ~get_pe \/ ~get_pg
       THEN /\ xlate' = [NoXlate EXCEPT !.kind = "identity", !.lin = lin,
                                        !.access = accessType,
                                        !.ecpl = effectiveCPL, !.phys = lin,
                                        !.before = m_memory]
            /\ UNCHANGED <<m_cr2, m_memory>>
       ELSE LET r == translate_address_slow_case(lin, accessType, effectiveCPL)
            IN  /\ xlate' = r.out
                /\ m_cr2' = r.cr2
                /\ m_memory' = r.mem
    /\ done' = "translate"
    /\ UNCHANGED <<m_gpr, m_cr0, m_cr3, m_cr4, m_dr, m_gdtr, m_idtr, m_ldtr,
                   m_segment_prefix, cpuFlow, loopVars, last_int, extVars>>

\* the guest's page tables: the directory at 0x1000 (or at a CR3 that the
\* walk's assertions reject), one page table at 0x2000, one data frame
PageDirectoryBases == {4096, 4608, 8388608}
DirectoryFrames == {4096, 8192}
DataFrames == {12288}
\* P, R/W and U/S in every combination
GuestEntryFlags == 0 .. 7
\* linear addresses in directory slot 1: page 0 and page 1, offset 0x123
LinearAddresses == {4194595, 4198691}
\* where the guest stored its directory entry and its page table entry
GuestPDEAddress == 4100
GuestPTEAddress == 8192

\* a guest that has set up paging: CR0, CR3, the privilege level and the two
\* entries are what it chose
InitPaging ==
    /\ m_cr0 \in {{PE}, {PE, PG}, {PE, WP, PG}}
    /\ m_cr3 \in PageDirectoryBases
    /\ cpl \in {0, 3}
    /\ \E df \in DirectoryFrames, pf \in DataFrames,
          dflags \in GuestEntryFlags, pflags \in GuestEntryFlags :
          m_memory = write_physical_memory32(
                         write_physical_memory32(ZeroedMemory, GuestPTEAddress,
                                                 pf + pflags),
                         GuestPDEAddress, df + dflags)
    /\ m_is_for_autotest = FALSE
    /\ irq_skipped = FALSE
    /\ m_should_hard_reboot = FALSE
    /\ m_debugger_request = "NoDebuggerRequest"
    /\ debugger_active = FALSE
    /\ pic_pending = FALSE
    /\ m_next_instruction_is_uninterruptible = FALSE
    /\ m_gpr = [r \in Regs |-> 0]
    /\ m_cr2 = 0 /\ m_cr4 = 0
    /\ m_dr = [n \in DebugRegs |-> 0]
    /\ m_gdtr = GuestTable /\ m_idtr = GuestTable /\ m_ldtr = EmptyTable
    /\ m_segment_prefix = NoSegmentPrefix
    /\ m_cs = (IF cpl = 3 THEN UserCS ELSE GateSelector)
    /\ m_eip = 0
    /\ m_flags = ResetFlags
    /\ m_state = "Alive"
    /\ m_cycle = 0
    /\ m_main_loop_needs_slow_stuff = FALSE
    /\ pc = "exec"
    /\ done = "construct"
    /\ last_int = NoInterrupt
    /\ xlate = NoXlate
    /\ access = NoAccess
    /\ NoProviders
    /\ seg = NoSegmentAccess
    /\ NoFarTransfer

NextPaging ==
    \E lin \in LinearAddresses, accessType \in AccessTypes,
       effectiveCPL \in EffectiveCPLs :
        translate_address(lin, accessType, effectiveCPL)

\* Memory accesses of a guest with these page tables
SpecPaging == InitPaging /\ [][NextPaging]_vars

-----------------------------------------------------------------------------
(* Linear memory accesses: CPU::read_memory<T> and CPU::write_memory<T> on a *)
(* LinearAddress (src/x86/CPU.cpp 1428-1462 and 1525-1558), T = u8, u16 or   *)
(* u32 given by its size in bytes.                                           *)

\* weld<T>(high, low): the two halves joined, high half above the low half
weld16(high, low) == high * 256 + low
weld32(high, low) == high * 65536 + low

\* read_physical_memory<T> and write_physical_memory<T> by operand size
read_physical_memory(mem, a, size) ==
    CASE size = 1 -> read_physical_memory8(mem, a)
      [] size = 2 -> read_physical_memory16(mem, a)
      [] size = 4 -> read_physical_memory32(mem, a)

write_physical_memory(mem, a, size, v) ==
    CASE size = 1 -> write_physical_memory8(mem, a, v)
      [] size = 2 -> write_physical_memory16(mem, a, v)
      [] size = 4 -> write_physical_memory32(mem, a, v)

\* CPU::translate_address as a function of memory: the physical address, or
\* the fault, and memory after the walk
Translated(r) ==
    [kind |-> r.out.kind, phys |-> r.out.phys, error |-> r.out.error,
     cr2 |-> r.cr2, mem |-> r.mem]

translate_address_in(mem, lin, accessType, effectiveCPL) ==
    IF ~get_pe \/ ~get_pg
    THEN [kind |-> "ok", phys |-> lin, error |-> 0, cr2 |-> m_cr2, mem |-> mem]
    ELSE Translated(translate_address_slow_case_in(mem, lin, accessType,
                                                   effectiveCPL))

never_split(lin, size) == FALSE

\* lines 1433, 1445, 1530, 1542: the operand's first and last byte lie in
\* different pages and paging is on (for T = u8 they never do)
spans_two_pages(lin, size) ==
    get_pg /\ PageFrame(lin) # PageFrame(lin + size - 1)

\* a memory access under way: memory, CR2, the bytes read so far, the
\* accesses made to physical memory so far, and how it ended
StartAccess(mem) ==
    [mem |-> mem, cr2 |-> m_cr2, bytes |-> << >>, steps |-> << >>,
     outcome |-> "ok", error |-> 0]

\* the physical access at the translated address t, or the fault that the
\* translation raised
PhysicalStep(st, op, at, width, v, t) ==
    IF t.kind # "ok"
    THEN [st EXCEPT !.outcome = t.kind, !.cr2 = t.cr2, !.error = t.error,
                    !.mem = t.mem]
    ELSE [st EXCEPT
            !.mem = IF op = "write"
                    THEN write_physical_memory(t.mem, t.phys, width, v)
                    ELSE t.mem,
            !.bytes = IF op = "read"
                      THEN Append(@, read_physical_memory(t.mem, t.phys,
                                                          width))
                      ELSE @,
            !.steps = Append(@, [lin |-> at, phys |-> t.phys,
                                 width |-> width])]

\* one access of the given width at lin + k; a fault or a failed assertion
\* ends the whole access (the Exception propagates)
AccessStep(st, op, lin, k, width, v, accessType, effectiveCPL) ==
    IF st.outcome # "ok" THEN st
    ELSE PhysicalStep(st, op, lin + k, width, v,
                      translate_address_in(st.mem, lin + k, accessType,
                                           effectiveCPL))

\* the byte-wise path of read_memory: b1, b2 (, b3, b4) in this order
RECURSIVE read_bytes(_, _, _, _, _, _)
read_bytes(st, lin, k, size, accessType, effectiveCPL) ==
    IF k = size THEN st
    ELSE read_bytes(AccessStep(st, "read", lin, k, 1, 0, accessType,
                               effectiveCPL),
                    lin, k + 1, size, accessType, effectiveCPL)

\* the byte-wise path of write_memory: value & 0xff, (value >> 8) & 0xff, ...
RECURSIVE write_bytes(_, _, _, _, _, _)
write_bytes(st, lin, k, size, value, effectiveCPL) ==
    IF k = size THEN st
    ELSE write_bytes(AccessStep(st, "write", lin, k, 1,
                                (value \div (256 ^ k)) % 256, "Write",
                                effectiveCPL),
                     lin, k + 1, size, value, effectiveCPL)

\* the value that read_memory returns from the bytes it read
read_result(bytes, size) ==
    CASE Len(bytes) < size -> 0
      [] Len(bytes) = size /\ size = 1 -> bytes[1]
      [] Len(bytes) = size /\ size = 2 -> weld16(bytes[2], bytes[1])
      [] Len(bytes) = size /\ size = 4 ->
             weld32(weld16(bytes[4], bytes[3]), weld16(bytes[2], bytes[1]))

\* the value of the access: the one written, or the one returned from the
\* bytes or the one operand read
AccessValue(op, size, splits, value, st) ==
    IF op = "write" THEN value
    ELSE IF splits THEN read_result(st.bytes, size)
    ELSE IF st.bytes = << >> THEN 0 ELSE st.bytes[1]

\* memory and CR2 after the access st, and what it did
Accessed(op, size, lin, accessType, value, st) ==
    /\ m_memory' = st.mem
    /\ m_cr2' = st.cr2
    /\ access' = [op |-> op, size |-> size, lin |-> lin, type |-> accessType,
                  value |-> AccessValue(op, size, spans_two_pages(lin, size),
                                        value, st),
                  steps |-> st.steps, outcome |-> st.outcome,
                  error |-> st.error]

\* CPU::read_memory<T>(LinearAddress, MemoryAccessType, u8 effectiveCPL).
\* The record of the access through a segment is the caller's to set.
read_memory(size, lin, accessType, effectiveCPL) ==
    /\ access.outcome # "abort"
    /\ Accessed("read", size, lin, accessType, 0,
                IF spans_two_pages(lin, size)
                THEN read_bytes(StartAccess(m_memory), lin, 0, size,
                                accessType, effectiveCPL)
                ELSE AccessStep(StartAccess(m_memory), "read", lin, 0, size,
                                0, accessType, effectiveCPL))
    /\ done' = "read_memory"
    /\ UNCHANGED <<m_gpr, m_cr0, m_cr3, m_cr4, m_dr, m_gdtr, m_idtr, m_ldtr,
                   m_segment_prefix, cpuFlow, loopVars, last_int, xlate,
                   physVars, farVars>>

\* CPU::write_memory<T>(LinearAddress, T value, u8 effectiveCPL)
write_memory(size, lin, value, effectiveCPL) ==
    /\ access.outcome # "abort"
    /\ Accessed("write", size, lin, "Write", value,
                IF spans_two_pages(lin, size)
                THEN write_bytes(StartAccess(m_memory), lin, 0, size, value,
                                 effectiveCPL)
                ELSE AccessStep(StartAccess(m_memory), "write", lin, 0, size,
                                value, "Write", effectiveCPL))
    /\ done' = "write_memory"
    /\ UNCHANGED <<m_gpr, m_cr0, m_cr3, m_cr4, m_dr, m_gdtr, m_idtr, m_ldtr,
                   m_segment_prefix, cpuFlow, loopVars, last_int, xlate,
                   physVars, farVars>>

\* the guest's memory: the directory at 0x1000, its slot 1 pointing at the
\* page table at 0x2000, whose pages 0 and 1 map to the frames 0x5000 and
\* 0x3000 (not adjacent, second below first)
OperandSizes == {1, 2, 4}
FirstPageFrame == 20480
SecondPageFrame == 12288
\* not present; present, read-only; present, writable (user pages)
DataPageFlags == {0, 5, 7}
\* 0x400ffc, 0x400ffe, 0x400fff: operands that end page 0 or run into page 1
AccessAddresses == {4198396, 4198398, 4198399}
WrittenValue == 168496141

\* a value passed as a T of the given size (values stay below 2^31)
OperandOf(v, size) == IF size = 4 THEN v ELSE v % (256 ^ size)

RECURSIVE StoreBytes(_, _, _)
StoreBytes(mem, a, bytes) ==
    IF bytes = << >> THEN mem
    ELSE StoreBytes(RamStoreByte(mem, a, Head(bytes)), a + 1, Tail(bytes))

\* the data: 0x11 .. 0x44 end the first frame, 0x55 .. 0x08 start the second,
\* and other values lie at the same linear addresses taken as physical ones
GuestData ==
    StoreBytes(StoreBytes(StoreBytes(ZeroedMemory, FirstPageFrame + 4092,
                                     <<17, 34, 51, 68>>),
                          SecondPageFrame, <<85, 102, 119, 8>>),
               4198396, <<1, 2, 3, 4, 5, 6, 7, 9>>)

InitMemory ==
    /\ m_cr0 \in {{PE}, {PE, PG}}
    /\ m_cr3 = 4096
    /\ cpl \in {0, 3}
    /\ \E f0 \in DataPageFlags, f1 \in DataPageFlags :
          m_memory = write_physical_memory32(
                       write_physical_memory32(
                         write_physical_memory32(GuestData, GuestPDEAddress,
                                                 8192 + 7),
                         GuestPTEAddress, FirstPageFrame + f0),
                       GuestPTEAddress + 4, SecondPageFrame + f1)
    /\ m_is_for_autotest = FALSE
    /\ irq_skipped = FALSE
    /\ m_should_hard_reboot = FALSE
    /\ m_debugger_request = "NoDebuggerRequest"
    /\ debugger_active = FALSE
    /\ pic_pending = FALSE
    /\ m_next_instruction_is_uninterruptible = FALSE
    /\ m_gpr = [r \in Regs |-> 0]
    /\ m_cr2 = 0 /\ m_cr4 = 0
    /\ m_dr = [n \in DebugRegs |-> 0]
    /\ m_gdtr = GuestTable /\ m_idtr = GuestTable /\ m_ldtr = EmptyTable
    /\ m_segment_prefix = NoSegmentPrefix
    /\ m_cs = (IF cpl = 3 THEN UserCS ELSE GateSelector)
    /\ m_eip = 0
    /\ m_flags = ZeroFlags
    /\ m_state = "Alive"
    /\ m_cycle = 0
    /\ m_main_loop_needs_slow_stuff = FALSE
    /\ pc = "top"
    /\ done = "construct"
    /\ last_int = NoInterrupt
    /\ xlate = NoXlate
    /\ access = NoAccess
    /\ NoProviders
    /\ seg = NoSegmentAccess
    /\ NoFarTransfer

NextMemory ==
    \/ \E size \in OperandSizes, lin \in AccessAddresses :
          read_memory(size, lin, "Read", NoEffectiveCPL) /\ UNCHANGED segVars
    \/ \E size \in OperandSizes, lin \in AccessAddresses :
          write_memory(size, lin, OperandOf(WrittenValue, size),
                       NoEffectiveCPL) /\ UNCHANGED segVars

SpecMemory == InitMemory /\ [][NextMemory]_vars

-----------------------------------------------------------------------------
(* The machine's physical accesses with providers being registered *)

\* 0x9fffc, 0xa0000, 0xa7ffc, 0xa8000: below, at the start of, at the end
\* of and after "vga"; 0xc0000, 0xc1000, 0xc8000: in the block where "rom"
\* starts, at its base, in the block where it ends; 0xd0000: "small";
\* 0x1a0000: above 1 MiB; the last dword of RAM; the first address past RAM
PhysicalAddresses ==
    {655356, 655360, 688124, 688128, 786432, 790528, 819200, 851968,
     1703936, m_memory_size - 4, m_memory_size}

\* the addresses the guest stores to
StoredAddresses == {655360, 786432, 819200, 1703936, m_memory_size}

StoredValue == 168496141

\* RAM holds data behind the windows too
InitialRam ==
    SaveBytes(SaveBytes(SaveBytes(ZeroedMemory, 655360, 4, 287454020),
                        786432, 4, 1432778632),
              1703936, 4, 50595078)

\* the members that the memory specifications below leave as CPU::CPU and
\* the guest's first instructions set them
QuietCore ==
    /\ m_is_for_autotest = FALSE
    /\ irq_skipped = FALSE
    /\ m_should_hard_reboot = FALSE
    /\ m_debugger_request = "NoDebuggerRequest"
    /\ debugger_active = FALSE
    /\ pic_pending = FALSE
    /\ m_next_instruction_is_uninterruptible = FALSE
    /\ m_gpr = [r \in Regs |-> 0]
    /\ m_cr2 = 0 /\ m_cr4 = 0
    /\ m_dr = [n \in DebugRegs |-> 0]
    /\ m_segment_prefix = NoSegmentPrefix
    /\ m_eip = 0
    /\ m_state = "Alive"
    /\ m_cycle = 0
    /\ m_main_loop_needs_slow_stuff = FALSE
    /\ pc = "exec"
    /\ done = "construct"
    /\ last_int = NoInterrupt
    /\ xlate = NoXlate

\* real mode after construction, RAM loaded, no provider registered yet
InitPhysical ==
    /\ QuietCore
    /\ m_cr0 = {} /\ m_cr3 = 0
    /\ m_gdtr = EmptyTable /\ m_idtr = EmptyTable /\ m_ldtr = EmptyTable
    /\ m_cs = BiosCS
    /\ cpl = 0
    /\ m_flags = ResetFlags
    /\ m_memory = InitialRam
    /\ access = NoAccess
    /\ NoProviders
    /\ seg = NoSegmentAccess
    /\ NoFarTransfer

NextPhysical ==
    \/ \E p \in ProviderNames : register_memory_provider(p)
    \/ \E size \in {1, 4}, a \in PhysicalAddresses : ReadPhysical(size, a)
    \/ \E size \in {1, 4}, a \in StoredAddresses :
          WritePhysical(size, a, OperandOf(StoredValue, size))

SpecPhysical == InitPhysical /\ [][NextPhysical]_vars

-----------------------------------------------------------------------------
(* Physical accesses of every width around the end of RAM, no provider *)

\* the last dword of RAM, the three addresses after its start, the first
\* address past RAM
EndAddresses ==
    {m_memory_size - 4, m_memory_size - 3, m_memory_size - 2,
     m_memory_size - 1, m_memory_size}

EndValues == {StoredValue, 50595078}

NextRamEnd ==
    \/ \E size \in OperandSizes, a \in EndAddresses : ReadPhysical(size, a)
    \/ \E size \in OperandSizes, a \in EndAddresses, v \in EndValues :
          WritePhysical(size, a, OperandOf(v, size))

SpecRamEnd == InitPhysical /\ [][NextRamEnd]_vars

-----------------------------------------------------------------------------
(* Accesses through a segment: CPU::validate_address<T> and                  *)
(* CPU::read_memory<T> / CPU::write_memory<T> on a SegmentDescriptor         *)
(* (src/x86/CPU.cpp 1296-1367, 1464-1471, 1560-1567).                        *)
(*                                                                           *)
(* Offsets and limits run up to 0xffffffff, so a u32 is kept here as the     *)
(* pair <<high 16 bits, low 16 bits>>.                                       *)

\* offset + (sizeof(T) - 1): u32 + size_t, computed in the 64 bits of
\* size_t, so the high part may pass 0xffff
PlusSize(x, k) ==
    LET lo == x[2] + k IN <<x[1] + (lo \div 65536), lo % 65536>>

\* a sum cut to 32 bits
Truncate32(x) == <<x[1] % 65536, x[2]>>

\* x > y
Above(x, y) == x[1] > y[1] \/ (x[1] = y[1] /\ x[2] > y[2])

\* u32 + u32 in 32 bits
PlusU32(x, y) ==
    LET lo == x[2] + y[2]
    IN  <<(x[1] + y[1] + (lo \div 65536)) % 65536, lo % 65536>>

\* the integer, for values below 2^31
ToInt(x) == x[1] * 65536 + x[2]

\* the cached descriptors of the guest's segments.  Every one has base
\* 0x2000; the limit is the effective one (granularity applied).
SegmentBase == <<0, 8192>>
SmallLimit == <<0, 4095>>
FlatLimit == <<65535, 65535>>

NullDescriptor ==
    [null |-> TRUE, code |-> FALSE, access |-> FALSE, expand_down |-> FALSE,
     m_loaded_in_ss |-> FALSE, limit |-> <<0, 0>>]

\* access: readable() of a code segment, writable() of a data segment
Descriptor(code, rw, expand_down, in_ss, limit) ==
    [null |-> FALSE, code |-> code, access |-> rw,
     expand_down |-> expand_down, m_loaded_in_ss |-> in_ss, limit |-> limit]

\* null; code, readable (both limits) or execute-only; data, writable (both
\* limits), read-only, loaded in SS; expand-down data, also loaded in SS
Descriptors ==
    {NullDescriptor,
     Descriptor(TRUE, TRUE, FALSE, FALSE, SmallLimit),
     Descriptor(TRUE, TRUE, FALSE, FALSE, FlatLimit),
     Descriptor(TRUE, FALSE, FALSE, FALSE, SmallLimit),
     Descriptor(FALSE, TRUE, FALSE, FALSE, SmallLimit),
     Descriptor(FALSE, TRUE, FALSE, FALSE, FlatLimit),
     Descriptor(FALSE, FALSE, FALSE, FALSE, SmallLimit),
     Descriptor(FALSE, TRUE, FALSE, TRUE, SmallLimit),
     Descriptor(FALSE, TRUE, TRUE, FALSE, SmallLimit),
     Descriptor(FALSE, TRUE, TRUE, TRUE, SmallLimit)}

is_code(d) == ~d.null /\ d.code
is_data(d) == ~d.null /\ ~d.code
effectiveLimit(d) == d.limit
linear_address(d, offset) == PlusU32(SegmentBase, offset)

beyond_limit_in_32_bits(offset, size, limit) ==
    Above(Truncate32(PlusSize(offset, size - 1)), limit)

\* line 1349: (offset + (sizeof(T) - 1)) > descriptor.effectiveLimit()
beyond_limit(offset, size, limit) ==
    Above(PlusSize(offset, size - 1), limit)

\* CPU::validate_address<T>: "ok", the fault thrown ("GP" or "SS", both with
\* error code 0), or "abort" for the failed ASSERT
validate_address(d, offset, size, accessType) ==
    LET fault == IF d.m_loaded_in_ss THEN "SS" ELSE "GP"
        typeCheck ==
            IF get_vm THEN "ok"
            ELSE IF accessType # "Execute" /\ d.null THEN fault
            ELSE IF accessType = "Read"
            THEN IF is_code(d) /\ ~d.access THEN "GP" ELSE "ok"
            ELSE IF accessType = "Write"
            THEN IF ~is_data(d) THEN fault
                 ELSE IF ~d.access THEN fault ELSE "ok"
            ELSE IF ~is_code(d) THEN "abort" ELSE "ok"
    IN  IF typeCheck # "ok" THEN typeCheck
        ELSE IF beyond_limit(offset, size, effectiveLimit(d)) THEN fault
        ELSE "ok"

\* the check as read_memory and write_memory make it: in protected mode
\* outside virtual-8086 mode only
validated(d, offset, size, accessType) ==
    IF get_pe /\ ~get_vm THEN validate_address(d, offset, size, accessType)
    ELSE "ok"

\* a faulting or aborted access: nothing changes, no linear access is made
NoLinearAccess ==
    /\ access' = NoAccess
    /\ UNCHANGED <<cpuRegs, cpuFlow, loopVars, m_memory, done, last_int, xlate,
                   physVars, farVars>>

\* CPU::read_memory<T>(const SegmentDescriptor&, u32 offset, accessType)
read_memory_segment(d, offset, size, accessType) ==
    /\ seg.outcome # "abort"
    /\ LET v == validated(d, offset, size, accessType)
       IN  /\ seg' = [op |-> "read", descriptor |-> d, offset |-> offset,
                      size |-> size, type |-> accessType, outcome |-> v,
                      error |-> 0]
           /\ IF v = "ok"
              THEN read_memory(size, ToInt(linear_address(d, offset)),
                               accessType, NoEffectiveCPL)
              ELSE NoLinearAccess

\* CPU::write_memory<T>(const SegmentDescriptor&, u32 offset, T value)
write_memory_segment(d, offset, size, value) ==
    /\ seg.outcome # "abort"
    /\ LET v == validated(d, offset, size, "Write")
       IN  /\ seg' = [op |-> "write", descriptor |-> d, offset |-> offset,
                      size |-> size, type |-> "Write", outcome |-> v,
                      error |-> 0]
           /\ IF v = "ok"
              THEN write_memory(size, ToInt(linear_address(d, offset)), value,
                                NoEffectiveCPL)
              ELSE NoLinearAccess

\* offsets at the start of the segment, around the 0xfff limit and at the
\* top of the 32-bit range (linear 0x1ffc .. 0x1fff with base 0x2000)
SegmentOffsets ==
    {<<0, 0>>, <<0, 4092>>, <<0, 4093>>, <<0, 4095>>, <<0, 4096>>,
     <<65535, 65532>>, <<65535, 65533>>}
StoredOffsets == {<<0, 4093>>}
SegmentStoredValue == 1515870810

\* real mode, protected mode, or virtual-8086 mode; paging off
InitSegment ==
    /\ QuietCore
    /\ \E mode \in {"real", "protected", "vm86"} :
          /\ m_cr0 = (IF mode = "real" THEN {} ELSE {PE})
          /\ m_flags = [ResetFlags EXCEPT !.vm = (mode = "vm86")]
    /\ m_cr3 = 0
    /\ m_gdtr = GuestTable /\ m_idtr = GuestTable /\ m_ldtr = EmptyTable
    /\ m_cs = GateSelector
    /\ cpl = 0
    /\ m_memory = StoreBytes(StoreBytes(ZeroedMemory, 8188,
                                        <<1, 2, 3, 4, 5, 6, 7, 8>>),
                             12284, <<17, 34, 51, 68, 85, 102, 119, 8>>)
    /\ access = NoAccess
    /\ seg = NoSegmentAccess
    /\ NoFarTransfer
    /\ NoProviders

\* CS always holds a code segment, so fetches go through code descriptors
NextSegment ==
    \/ \E d \in Descriptors, offset \in SegmentOffsets, size \in OperandSizes :
          read_memory_segment(d, offset, size, "Read")
    \/ \E d \in {c \in Descriptors : is_code(c)}, offset \in SegmentOffsets,
          size \in OperandSizes :
          read_memory_segment(d, offset, size, "Execute")
    \/ \E d \in Descriptors, offset \in StoredOffsets :
          write_memory_segment(d, offset, 4, SegmentStoredValue)

SpecSegment == InitSegment /\ [][NextSegment]_vars

-----------------------------------------------------------------------------
(* Far control transfers: CPU::far_jump, CPU::real_mode_far_jump,            *)
(* CPU::protected_mode_far_jump, CPU::far_return, CPU::protected_far_return  *)
(* (src/x86/CPU.cpp 589-928).                                                *)

\* far transfers executed per run (guards the transfers)
MaxTransfers == 1

\* the guest's descriptor table: what get_descriptor finds for a selector
CodeDescriptor(dpl, conforming, present, is_32bit, limit) ==
    [kind |-> "code", dpl |-> dpl, present |-> present,
     conforming |-> conforming, is_32bit |-> is_32bit, limit |-> limit,
     writable |-> FALSE, selector |-> 0, offset |-> 0, parameter_count |-> 0]

DataDescriptor(dpl, writable, present) ==
    [kind |-> "data", dpl |-> dpl, present |-> present,
     conforming |-> FALSE, is_32bit |-> TRUE, limit |-> 1048575,
     writable |-> writable, selector |-> 0, offset |-> 0,
     parameter_count |-> 0]

GateDescriptor(kind, dpl, present, is_32bit, selector, offset, count) ==
    [kind |-> kind, dpl |-> dpl, present |-> present,
     conforming |-> FALSE, is_32bit |-> is_32bit, limit |-> 0,
     writable |-> FALSE, selector |-> selector, offset |-> offset,
     parameter_count |-> count]

NullFarDescriptor ==
    [kind |-> "null", dpl |-> 0, present |-> FALSE, conforming |-> FALSE,
     is_32bit |-> FALSE, limit |-> 0, writable |-> FALSE, selector |-> 0,
     offset |-> 0, parameter_count |-> 0]

OutsideTable == [NullFarDescriptor EXCEPT !.kind = "outside"]

\* entries 1 .. 21 of the GDT (selector = 8 * index + RPL)
GuestGDT ==
    <<CodeDescriptor(0, FALSE, TRUE, TRUE, 1048575),        \* 0x08
      CodeDescriptor(3, FALSE, TRUE, TRUE, 1048575),        \* 0x10
      CodeDescriptor(0, TRUE, TRUE, TRUE, 1048575),         \* 0x18
      CodeDescriptor(3, TRUE, TRUE, TRUE, 1048575),         \* 0x20
      CodeDescriptor(0, FALSE, FALSE, TRUE, 1048575),       \* 0x28
      CodeDescriptor(0, FALSE, TRUE, FALSE, 65535),         \* 0x30
      DataDescriptor(0, TRUE, TRUE),                        \* 0x38
      DataDescriptor(3, TRUE, TRUE),                        \* 0x40
      GateDescriptor("call_gate", 3, TRUE, TRUE, 8, 256, 0),    \* 0x48
      GateDescriptor("call_gate", 0, TRUE, TRUE, 8, 256, 0),    \* 0x50
      GateDescriptor("call_gate", 3, FALSE, TRUE, 8, 256, 0),   \* 0x58
      GateDescriptor("call_gate", 3, TRUE, TRUE, 72, 256, 0),   \* 0x60
      GateDescriptor("call_gate", 3, TRUE, FALSE, 8, 256, 0),   \* 0x68
      GateDescriptor("call_gate", 3, TRUE, TRUE, 8, 256, 2),    \* 0x70
      GateDescriptor("task_gate", 3, TRUE, TRUE, 128, 0, 0),    \* 0x78
      GateDescriptor("tss", 3, TRUE, TRUE, 0, 0, 0),            \* 0x80
      GateDescriptor("tss", 0, FALSE, TRUE, 0, 0, 0),           \* 0x88
      GateDescriptor("interrupt_gate", 3, TRUE, TRUE, 8, 256, 0), \* 0x90
      GateDescriptor("call_gate", 3, TRUE, TRUE, 19, 256, 0),   \* 0x98
      CodeDescriptor(3, FALSE, TRUE, FALSE, 65535),         \* 0xa0
      GateDescriptor("call_gate", 0, FALSE, TRUE, 8, 256, 0)>>  \* 0xa8

\* the GDTR that covers exactly this table
FarTable == [base |-> 4096, limit |-> 8 * (Len(GuestGDT) + 1) - 1]

\* CPU::get_descriptor for a GDT selector
get_descriptor(selector) ==
    LET index == selector \div 8
    IN  IF index = 0 THEN NullFarDescriptor
        ELSE IF 8 * index + 7 > m_gdtr.limit THEN OutsideTable
        ELSE GuestGDT[index]

is_gate(d) == d.kind \in {"call_gate", "task_gate", "interrupt_gate"}

\* selector & 0xfffc
WithoutRPL(selector) == selector - (selector % 4)

\* the stack the guest's TSS names for ring 0
RingSS == 56
RingESP == 32768
\* the guest's ring-3 stack
UserSS == 67
UserESP == 36864

\* the task register: the current 32-bit TSS lies at its base
GuestTR == [selector |-> 128, base |-> 24576, limit |-> 103]

\* current_tss().get_ring_ss(ring) / get_ring_esp(ring): SSn at offset
\* 8 + 8 * n of the TSS, ESPn at offset 4 + 8 * n
get_ring_ss(st, ring) == LoadBytes(st.mem, GuestTR.base + 8 + 8 * ring, 2)
get_ring_esp(st, ring) == LoadBytes(st.mem, GuestTR.base + 4 + 8 * ring, 4)

\* a TSS whose ring-0 stack is ss:esp
TssImage(ss, esp) ==
    SaveBytes(SaveBytes(ZeroedMemory, GuestTR.base + 4, 4, esp),
              GuestTR.base + 8, 2, ss)

\* the registers and memory that a far transfer works on
FarState ==
    [cs |-> m_cs, eip |-> m_eip, cpl |-> cpl, ss |-> m_ss, esp |-> m_esp,
     segs |-> m_data_segments, mem |-> m_memory, pushes |-> << >>]

\* how a transfer ends: "ok", an exception with its error code, "abort" for
\* a failed assertion, "task_switch" for a call of CPU::task_switch
Finished(st) ==
    [st |-> st, outcome |-> "ok", error |-> 0, link |-> FALSE]
Thrown(st, exception, error) ==
    [st |-> st, outcome |-> exception, error |-> error, link |-> FALSE]

\* write_segment_register(CS, selector): the selector and the RPL it carries
set_cs(st, selector) == [st EXCEPT !.cs = selector, !.cpl = selector % 4]

\* a CPL kept in the descriptor cache alone
set_cpl_cached_only(st, c) == [st EXCEPT !.cpl = c]

\* CPU::set_cpl under PE = 1, VM = 0
set_cpl(st, c) == [st EXCEPT !.cs = (@ - (@ % 4)) + c, !.cpl = c]

\* s16(): the stack pointer is SP in real and virtual-8086 mode; the guest's
\* protected-mode stack segments are 32-bit
s16 == ~get_pe \/ get_vm

\* the stack pointer moved by n bytes: SP wraps at 64 KiB under the upper
\* half of ESP
adjust_stack_pointer(esp, n) ==
    IF s16 THEN (esp - (esp % 65536)) + (((esp % 65536) + 65536 + n) % 65536)
    ELSE esp + n

\* the linear address of SS:offset: base selector * 16 in real mode, the
\* guest's flat stack segments in protected mode
StackAddress(st, offset) ==
    IF s16 THEN st.ss * 16 + (offset % 65536) ELSE offset

\* push_value_with_size / push_operand_sized_value
push_value_with_size(st, value, size) ==
    [st EXCEPT !.esp = adjust_stack_pointer(@, 0 - size),
               !.mem = SaveBytes(@, StackAddress(st,
                                     adjust_stack_pointer(st.esp, 0 - size)),
                                 size, value),
               !.pushes = Append(@, [value |-> OperandOf(value, size),
                                     size |-> size, ss |-> st.ss,
                                     at |-> adjust_stack_pointer(st.esp,
                                                                 0 - size)])]

\* CPU::real_mode_far_jump
real_mode_far_jump(st, selector, offset, type, o32) ==
    LET size   == IF o32 THEN 4 ELSE 2
        landed == [st EXCEPT !.cs = selector, !.eip = offset]
    IN  Finished(IF type = "CALL"
                 THEN push_value_with_size(
                          push_value_with_size(landed, st.cs, size),
                          st.eip, size)
                 ELSE landed)

NoGate == NullFarDescriptor

\* what an interrupt through a gate pushes instead: the flags as well
escalation_pushes_eflags(st, originalSS, originalESP, pushSize) ==
    push_value_with_size(
        push_value_with_size(
            push_value_with_size(st, originalSS, pushSize),
            originalESP, pushSize),
        512, pushSize)

\* lines 794-795: the old SS, then the old ESP, on the new stack
escalation_pushes(st, originalSS, originalESP, pushSize) ==
    push_value_with_size(push_value_with_size(st, originalSS, pushSize),
                         originalESP, pushSize)

\* a load of SS that takes any selector
set_ss_never_throws(st, selector) == FALSE

\* set_ss, write_segment_register(SS, selector) under PE = 1, VM = 0: the
\* load is refused unless the selector names a present writable data segment
\* inside its table whose DPL and RPL are the CPL
set_ss_throws(st, selector) ==
    LET loaded == get_descriptor(selector)
    IN  \/ loaded.kind # "data"
        \/ ~loaded.writable
        \/ loaded.dpl # st.cpl
        \/ selector % 4 # st.cpl
        \/ ~loaded.present

\* lines 711-817: the target is a code segment
far_jump_to_code(st, selector, offset, type, o32, gate) ==
    LET codeSegment == get_descriptor(selector)
        viaGate     == gate.kind # "null"
        pushSize    == IF viaGate THEN (IF gate.is_32bit THEN 4 ELSE 2)
                       ELSE (IF o32 THEN 4 ELSE 2)
        selectorRPL == selector % 4
        offset1     == IF viaGate /\ ~gate.is_32bit THEN offset % 65536
                       ELSE offset
        offset2     == IF ~codeSegment.is_32bit THEN offset1 % 65536
                       ELSE offset1
        landed      == [set_cs(st, selector) EXCEPT !.eip = offset2]
        newSS       == get_ring_ss(st, codeSegment.dpl)
        newESP      == get_ring_esp(st, codeSegment.dpl)
        newSSDescriptor == get_descriptor(newSS)
        switched    == escalation_pushes(
                           [set_cpl(landed, codeSegment.dpl) EXCEPT
                               !.ss = newSS, !.esp = newESP],
                           st.ss, st.esp, pushSize)
        afterSwitch ==
            IF ~(type = "CALL" /\ viaGate) THEN Finished(landed)
            ELSE IF ~(codeSegment.dpl < st.cpl)
            THEN Finished(set_cpl(landed, st.cpl))
            ELSE IF newSSDescriptor.kind = "null"
            THEN Thrown(landed, "TS", WithoutRPL(newSS))
            ELSE IF newSSDescriptor.kind = "outside"
            THEN Thrown(landed, "TS", WithoutRPL(newSS))
            ELSE IF newSSDescriptor.dpl # codeSegment.dpl
            THEN Thrown(landed, "TS", WithoutRPL(newSS))
            ELSE IF newSSDescriptor.kind # "data" \/ ~newSSDescriptor.writable
            THEN Thrown(landed, "TS", WithoutRPL(newSS))
            ELSE IF ~newSSDescriptor.present
            THEN Thrown(landed, "SS", WithoutRPL(newSS))
            ELSE IF set_ss_throws(set_cpl(landed, codeSegment.dpl), newSS)
            THEN Thrown(set_cpl(landed, codeSegment.dpl), "abort", 0)
            ELSE Finished(switched)
        afterPush ==
            IF afterSwitch.outcome # "ok" \/ type # "CALL" THEN afterSwitch
            ELSE Finished(push_value_with_size(
                              push_value_with_size(afterSwitch.st, st.cs,
                                                   pushSize),
                              st.eip, pushSize))
    IN  IF type \in {"CALL", "JMP"} /\ ~viaGate /\ codeSegment.conforming
           /\ codeSegment.dpl > st.cpl
        THEN Thrown(st, "GP", WithoutRPL(selector))
        ELSE IF type \in {"CALL", "JMP"} /\ ~viaGate /\ ~codeSegment.conforming
                /\ selectorRPL > codeSegment.dpl
        THEN Thrown(st, "GP", WithoutRPL(selector))
        ELSE IF type \in {"CALL", "JMP"} /\ ~viaGate /\ ~codeSegment.conforming
                /\ codeSegment.dpl # st.cpl
        THEN Thrown(st, "GP", WithoutRPL(selector))
        ELSE IF ~codeSegment.present
        THEN Thrown(st, "NP", WithoutRPL(selector))
        ELSE IF offset2 > codeSegment.limit
        THEN Thrown(st, "GP", 0)
        ELSE IF afterPush.outcome # "ok" \/ viaGate THEN afterPush
        ELSE Finished(set_cpl(afterPush.st, st.cpl))

\* lines 646-709: the checks on the selector, gates and TSS descriptors;
\* gate is the call gate the transfer came through, NoGate if none
protected_mode_far_jump(st, selector, offset, type, o32, gate) ==
    LET descriptor  == get_descriptor(selector)
        selectorRPL == selector % 4
        viaGate     == gate.kind # "null"
    IN  IF descriptor.kind = "null" THEN Thrown(st, "GP", 0)
        ELSE IF descriptor.kind = "outside"
        THEN Thrown(st, "GP", WithoutRPL(selector))
        ELSE IF descriptor.kind \notin {"code", "call_gate", "task_gate", "tss"}
        THEN Thrown(st, "GP", WithoutRPL(selector))
        ELSE IF is_gate(descriptor) /\ viaGate
        THEN Thrown(st, "GP", WithoutRPL(selector))
        ELSE IF descriptor.kind = "task_gate" THEN Thrown(st, "abort", 0)
        ELSE IF descriptor.kind = "call_gate"
        THEN IF descriptor.parameter_count # 0 THEN Thrown(st, "abort", 0)
             ELSE IF descriptor.dpl < st.cpl
             THEN Thrown(st, "GP", WithoutRPL(selector))
             ELSE IF selectorRPL > descriptor.dpl
             THEN Thrown(st, "GP", WithoutRPL(selector))
             ELSE IF ~descriptor.present
             THEN Thrown(st, "NP", WithoutRPL(selector))
             ELSE LET target == get_descriptor(descriptor.selector)
                  IN  \* far_jump(gate.entry(), type, &gate): one level deep,
                      \* a gate behind a gate is refused there
                      IF target.kind = "null" THEN Thrown(st, "GP", 0)
                      ELSE IF target.kind = "outside"
                      THEN Thrown(st, "GP", WithoutRPL(descriptor.selector))
                      ELSE IF target.kind \notin {"code", "call_gate",
                                                  "task_gate", "tss"}
                      THEN Thrown(st, "GP", WithoutRPL(descriptor.selector))
                      ELSE IF is_gate(target)
                      THEN Thrown(st, "GP", WithoutRPL(descriptor.selector))
                      ELSE IF target.kind = "tss"
                      THEN IF target.dpl < st.cpl
                              \/ target.dpl < descriptor.selector % 4
                           THEN Thrown(st, "GP",
                                       WithoutRPL(descriptor.selector))
                           ELSE IF ~target.present
                           THEN Thrown(st, "NP",
                                       WithoutRPL(descriptor.selector))
                           ELSE [st |-> st, outcome |-> "task_switch",
                                 error |-> 0, link |-> type = "CALL"]
                      ELSE far_jump_to_code(st, descriptor.selector,
                                            descriptor.offset, type, o32,
                                            descriptor)
        ELSE IF descriptor.kind = "tss"
        THEN IF descriptor.dpl < st.cpl
             THEN Thrown(st, "GP", WithoutRPL(selector))
             ELSE IF descriptor.dpl < selectorRPL
             THEN Thrown(st, "GP", WithoutRPL(selector))
             ELSE IF ~descriptor.present
             THEN Thrown(st, "NP", WithoutRPL(selector))
             ELSE [st |-> st, outcome |-> "task_switch", error |-> 0,
                   link |-> type = "CALL"]
        ELSE far_jump_to_code(st, selector, offset, type, o32, gate)

\* CPU::far_jump: real mode and virtual-8086 mode, or protected mode
far_jump_result(st, selector, offset, type, o32) ==
    IF ~get_pe \/ get_vm
    THEN real_mode_far_jump(st, selector, offset, type, o32)
    ELSE protected_mode_far_jump(st, selector, offset, type, o32, NoGate)

\* the registers and memory after a far transfer, and what it did
FarTransfer(op, selector, offset, o32, adjustment, r) ==
    /\ m_cs' = r.st.cs
    /\ m_eip' = r.st.eip
    /\ cpl' = r.st.cpl
    /\ m_ss' = r.st.ss
    /\ m_esp' = r.st.esp
    /\ m_data_segments' = r.st.segs
    /\ m_memory' = r.st.mem
    /\ jump' = [op |-> op, selector |-> selector, offset |-> offset,
                o32 |-> o32, adjustment |-> adjustment,
                outcome |-> r.outcome, error |-> r.error, link |-> r.link,
                pushes |-> r.st.pushes,
                from |-> [cs |-> m_cs, eip |-> m_eip, esp |-> m_esp],
                code |-> << >>]
    /\ m_cycle' = m_cycle + 1
    /\ done' = "far_transfer"
    /\ UNCHANGED <<cpuRegs, m_flags, m_next_instruction_is_uninterruptible,
                   m_state, m_should_hard_reboot, m_debugger_request,
                   m_main_loop_needs_slow_stuff, m_is_for_autotest, irq_skipped,
                   debugger_active, pic_pending, pc, last_int, xlate, access,
                   physVars, segVars>>

\* JMP ptr16:16/32 and CALL ptr16:16/32; the offset has the operand's width
far_jump(selector, offset, type, o32) ==
    /\ jump.outcome # "abort"
    /\ FarTransfer(type, selector, IF o32 THEN offset ELSE offset % 65536,
                   o32, 0,
                   far_jump_result(FarState, selector,
                                   IF o32 THEN offset ELSE offset % 65536,
                                   type, o32))

\* selectors of the guest's table with RPL 0 and 3, the null selector and one
\* beyond the table's limit
FarSelectors == {8 * i + rpl : i \in 0 .. Len(GuestGDT) + 1, rpl \in {0, 3}}
FarOffsets == {256, 74565, 2097152}
JumpTypes == {"JMP", "CALL"}


\* the members that the far transfers leave alone, a caller at 0x1234 and
\* the guest's descriptor table loaded
QuietFarCore ==
    /\ m_is_for_autotest = FALSE
    /\ irq_skipped = FALSE
    /\ m_should_hard_reboot = FALSE
    /\ m_debugger_request = "NoDebuggerRequest"
    /\ debugger_active = FALSE
    /\ pic_pending = FALSE
    /\ m_next_instruction_is_uninterruptible = FALSE
    /\ m_cr2 = 0 /\ m_cr3 = 0 /\ m_cr4 = 0
    /\ m_dr = [n \in DebugRegs |-> 0]
    /\ m_segment_prefix = NoSegmentPrefix
    /\ m_gdtr = FarTable /\ m_ldtr = EmptyTable
    /\ m_eip = 4660
    /\ m_state = "Alive"
    /\ m_cycle = 0
    /\ m_main_loop_needs_slow_stuff = FALSE
    /\ pc = "exec"
    /\ done = "construct"
    /\ last_int = NoInterrupt
    /\ xlate = NoXlate
    /\ access = NoAccess
    /\ seg = NoSegmentAccess
    /\ jump = NoJump
    /\ NoProviders

\* the guest in real mode, or in protected mode in ring 0 or ring 3 with a
\* flat stack; paging off
InitFarJump ==
    /\ QuietFarCore
    /\ m_gpr = [r \in Regs |-> 0]
    /\ m_idtr = EmptyTable
    /\ m_flags = ResetFlags
    /\ \E ring \in {"real", "ring0", "ring3"} :
          /\ m_cr0 = (IF ring = "real" THEN {} ELSE {PE})
          /\ m_cs = (IF ring = "ring3" THEN 19 ELSE GateSelector)
          /\ cpl = (IF ring = "ring3" THEN 3 ELSE 0)
          /\ m_ss = (IF ring = "ring3" THEN UserSS ELSE RingSS)
          /\ m_esp = (IF ring = "ring3" THEN UserESP ELSE 28672)
    /\ m_memory = TssImage(RingSS, RingESP)
    /\ m_data_segments = [r \in {"DS", "ES", "FS", "GS"} |-> 0]

NextFarJump ==
    /\ m_cycle < MaxTransfers
    /\ \E selector \in FarSelectors, offset \in FarOffsets,
          type \in JumpTypes, o32 \in BOOLEAN :
          far_jump(selector, offset, type, o32)

SpecFarJump == InitFarJump /\ [][NextFarJump]_vars

-----------------------------------------------------------------------------
(* Far JMP and CALL of a protected-mode guest whose TSS names a good or a   *)
(* bad ring-0 stack                                                         *)

\* SS0 of the TSS: the ring-0 data segment, the null selector, a selector
\* outside the table, a ring-3 data segment, a code segment
RingStacks == {RingSS, 0, 432, 64, 8, 59}

\* a ring-0 code segment, the 16-bit one, a ring-3 one; call gates to ring-0
\* code (32-bit, 16-bit, not present), to another gate, to ring-3 code
GateCallSelectors == {8, 48, 19, 75, 107, 91, 99, 155}

InitGateCall ==
    /\ QuietFarCore
    /\ m_gpr = [r \in Regs |-> 0]
    /\ m_idtr = EmptyTable
    /\ m_flags = ResetFlags
    /\ m_cr0 = {PE}
    /\ \E ring \in {"ring0", "ring3"} :
          /\ m_cs = (IF ring = "ring3" THEN 19 ELSE GateSelector)
          /\ cpl = (IF ring = "ring3" THEN 3 ELSE 0)
          /\ m_ss = (IF ring = "ring3" THEN UserSS ELSE RingSS)
          /\ m_esp = (IF ring = "ring3" THEN UserESP ELSE 28672)
    /\ \E ss \in RingStacks : m_memory = TssImage(ss, RingESP)
    /\ m_data_segments = [r \in {"DS", "ES", "FS", "GS"} |-> 0]

NextGateCall ==
    /\ m_cycle < MaxTransfers
    /\ \E selector \in GateCallSelectors, offset \in FarOffsets,
          type \in JumpTypes, o32 \in BOOLEAN :
          far_jump(selector, offset, type, o32)

SpecGateCall == InitGateCall /\ [][NextGateCall]_vars

-----------------------------------------------------------------------------
(* Far returns: CPU::far_return, CPU::real_mode_far_return,                  *)
(* CPU::protected_far_return (src/x86/CPU.cpp 819-938).                      *)

\* TransactionalPopper::pop_operand_sized_value: the value at SS:ESP + at,
\* where at is the popper's own offset; ESP itself stays
pop_operand_sized_value(st, at, size) ==
    LoadBytes(st.mem, StackAddress(st, adjust_stack_pointer(st.esp, at)), size)

\* TransactionalPopper::commit: ESP moves by all that was popped
commit(st, at) == [st EXCEPT !.esp = adjust_stack_pointer(@, at)]

\* a popper destroyed without commit: the registers are as before
uncommitted(st, at) == st

\* a cleanup that goes by the DPL alone, whatever the segment's type
clear_segment_register_of_lower_dpl(st, segreg) ==
    LET cached == get_descriptor(st.segs[segreg])
    IN  IF st.segs[segreg] = 0 THEN st
        ELSE IF cached.kind = "null" \/ cached.dpl < st.cpl
        THEN [st EXCEPT !.segs[segreg] = 0]
        ELSE st

\* CPU::clear_segment_register_after_return_if_needed
clear_segment_register_after_return_if_needed(st, segreg) ==
    LET cached == get_descriptor(st.segs[segreg])
    IN  IF st.segs[segreg] = 0 THEN st
        ELSE IF cached.kind = "null"
                \/ (cached.dpl < st.cpl
                    /\ (cached.kind = "data"
                        \/ (cached.kind = "code" /\ ~cached.conforming)))
        THEN [st EXCEPT !.segs[segreg] = 0]
        ELSE st

\* checks that throw after CS:EIP were loaded would leave the target behind
checked_after_load(st, landed) == landed

\* every check throws before set_cs and set_eip: the registers of a
\* refused return are the ones before it
checked_before_load(st, landed) == st

\* CPU::protected_far_return
protected_far_return(st, stack_adjustment, o32) ==
    LET size        == IF o32 THEN 4 ELSE 2
        offset      == pop_operand_sized_value(st, 0, size)
        selector    == pop_operand_sized_value(st, size, size) % 65536
        selectorRPL == selector % 4
        popped      == 2 * size + stack_adjustment
        descriptor  == get_descriptor(selector)
        offset1     == IF ~descriptor.is_32bit THEN offset % 65536 ELSE offset
        landed      == [set_cs(st, selector) EXCEPT !.eip = offset1]
        failed      == checked_before_load(uncommitted(st, popped), landed)
        newESP      == pop_operand_sized_value(st, popped, size)
        newSS       == pop_operand_sized_value(st, popped + size, size) % 65536
        outer       == clear_segment_register_after_return_if_needed(
                         clear_segment_register_after_return_if_needed(
                           clear_segment_register_after_return_if_needed(
                             clear_segment_register_after_return_if_needed(
                               [landed EXCEPT !.ss = newSS, !.esp = newESP],
                               "ES"), "FS"), "GS"), "DS")
        returned    == IF selectorRPL > st.cpl THEN outer
                       ELSE commit(landed, popped)
    IN  IF descriptor.kind = "null" THEN Thrown(failed, "GP", 0)
        ELSE IF descriptor.kind = "outside"
        THEN Thrown(failed, "GP", WithoutRPL(selector))
        ELSE IF descriptor.kind # "code"
        THEN Thrown(failed, "GP", WithoutRPL(selector))
        ELSE IF selectorRPL < st.cpl
        THEN Thrown(failed, "GP", WithoutRPL(selector))
        ELSE IF descriptor.conforming /\ descriptor.dpl > selectorRPL
        THEN Thrown(failed, "GP", WithoutRPL(selector))
        ELSE IF ~descriptor.conforming /\ descriptor.dpl # selectorRPL
        THEN Thrown(failed, "GP", WithoutRPL(selector))
        ELSE IF ~descriptor.present
        THEN Thrown(failed, "NP", WithoutRPL(selector))
        ELSE IF offset1 > descriptor.limit THEN Thrown(failed, "GP", 0)
        ELSE IF selectorRPL > st.cpl /\ set_ss_throws(landed, newSS)
        THEN Thrown(landed, "abort", 0)
        ELSE Finished(IF returned.cpl # st.cpl
                      THEN [returned EXCEPT
                               !.esp = adjust_stack_pointer(@,
                                                            stack_adjustment)]
                      ELSE returned)

\* a return that takes the selector from the top of the stack
real_mode_far_return_selector_first(st, stack_adjustment, o32) ==
    LET size == IF o32 THEN 4 ELSE 2
    IN  Finished([st EXCEPT
                     !.cs = pop_operand_sized_value(st, 0, size) % 65536,
                     !.eip = pop_operand_sized_value(st, size, size),
                     !.esp = adjust_stack_pointer(
                                 @, 2 * size + stack_adjustment)])

\* CPU::real_mode_far_return
real_mode_far_return(st, stack_adjustment, o32) ==
    LET size == IF o32 THEN 4 ELSE 2
    IN  Finished([st EXCEPT
                     !.cs = pop_operand_sized_value(st, size, size) % 65536,
                     !.eip = pop_operand_sized_value(st, 0, size),
                     !.esp = adjust_stack_pointer(
                                 @, 2 * size + stack_adjustment)])

\* CPU::far_return
far_return_result(st, stack_adjustment, o32) ==
    IF ~get_pe \/ get_vm
    THEN real_mode_far_return(st, stack_adjustment, o32)
    ELSE protected_far_return(st, stack_adjustment, o32)

\* RETF and RETF imm16
far_return(stack_adjustment, o32) ==
    /\ jump.outcome # "abort"
    /\ FarTransfer("RETF",
                   pop_operand_sized_value(FarState, IF o32 THEN 4 ELSE 2,
                                           IF o32 THEN 4 ELSE 2) % 65536,
                   pop_operand_sized_value(FarState, 0, IF o32 THEN 4 ELSE 2),
                   o32, stack_adjustment,
                   far_return_result(FarState, stack_adjustment, o32))

StackAdjustments == {0, 4}
FrameWidths == {2, 4}
\* ESP of the callee when it returns
CalleeESP == 28640

\* a far-call frame on the stack: offset, selector, then the caller's ESP
\* and SS, each of the given width
ReturnFrame(width, offset, selector) ==
    SaveBytes(
        SaveBytes(
            SaveBytes(
                SaveBytes(ZeroedMemory, CalleeESP, width, offset),
                CalleeESP + width, width, selector),
            CalleeESP + 2 * width, width, UserESP),
        CalleeESP + 3 * width, width, UserSS)

\* the callee in real mode, ring 0 or ring 3, about to return through a
\* frame that names any selector and offset; paging off.  DS holds a ring-0
\* data segment, ES a ring-3 data segment, FS a ring-0 code segment and GS
\* the null selector or a readable conforming ring-0 code segment
InitFarReturn ==
    /\ QuietFarCore
    /\ m_gpr = [r \in Regs |-> 0]
    /\ m_idtr = EmptyTable
    /\ m_flags = ResetFlags
    /\ \E ring \in {"real", "ring0", "ring3"} :
          /\ m_cr0 = (IF ring = "real" THEN {} ELSE {PE})
          /\ m_cs = (IF ring = "ring3" THEN 19 ELSE GateSelector)
          /\ cpl = (IF ring = "ring3" THEN 3 ELSE 0)
          /\ m_ss = (IF ring = "ring3" THEN UserSS
                     ELSE IF ring = "ring0" THEN RingSS ELSE 0)
    /\ m_esp = CalleeESP
    /\ \E width \in FrameWidths, offset \in FarOffsets,
          selector \in FarSelectors :
          m_memory = ReturnFrame(width, offset, selector)
    /\ \E gs \in {0, 24} :
          m_data_segments = [r \in {"DS", "ES", "FS", "GS"} |->
                               IF r = "DS" THEN RingSS
                               ELSE IF r = "ES" THEN UserSS
                               ELSE IF r = "FS" THEN GateSelector
                               ELSE gs]

NextFarReturn ==
    /\ m_cycle < MaxTransfers
    /\ \E stack_adjustment \in StackAdjustments, o32 \in BOOLEAN :
          far_return(stack_adjustment, o32)

SpecFarReturn == InitFarReturn /\ [][NextFarReturn]_vars

-----------------------------------------------------------------------------
(* A real-mode guest that makes far calls and far returns: CPU::far_jump    *)
(* and CPU::far_return one after the other.                                  *)

\* far transfers in one run of the real-mode guest
MaxCallReturn == 2

\* stack pointers at, next to and away from the 64 KiB wrap
StackPointers == {0, 1, 2, 3, 4, 6, 8, 4096, 65534, 65535}
RealSegments == {8192, 16384}
RealOffsets == {256, 65535}

\* real mode, the caller at 1000:1234, the stack at 0800:SP
InitCallReturn ==
    /\ QuietFarCore
    /\ m_gpr = [r \in Regs |-> 0]
    /\ m_idtr = EmptyTable
    /\ m_flags = ResetFlags
    /\ m_cr0 = {}
    /\ m_cs = EntryCS
    /\ cpl = 0
    /\ m_ss = 2048
    /\ m_esp \in StackPointers
    /\ m_memory = ZeroedMemory
    /\ m_data_segments = [r \in {"DS", "ES", "FS", "GS"} |-> 0]

NextCallReturn ==
    /\ m_cycle < MaxCallReturn
    /\ \/ \E selector \in RealSegments, offset \in RealOffsets,
             type \in JumpTypes, o32 \in BOOLEAN :
             far_jump(selector, offset, type, o32)
       \/ \E stack_adjustment \in StackAdjustments, o32 \in BOOLEAN :
             far_return(stack_adjustment, o32)

SpecCallReturn == InitCallReturn /\ [][NextCallReturn]_vars

-----------------------------------------------------------------------------
(* Interrupt delivery with its stack frame: CPU::interrupt,                  *)
(* CPU::realModeInterrupt, CPU::protectedModeInterrupt and                   *)
(* CPU::interruptToTaskGate (src/x86/interrupt.cpp 67-314).                  *)

\* CPU::getEFlags: the image of EFLAGS, reserved bit 1 set
getEFlags(f) ==
    2 + (IF f.cf THEN 1 ELSE 0) + (IF f.pf THEN 4 ELSE 0)
      + (IF f.af THEN 16 ELSE 0) + (IF f.zf THEN 64 ELSE 0)
      + (IF f.sf THEN 128 ELSE 0) + (IF f.tf THEN 256 ELSE 0)
      + (IF f.if THEN 512 ELSE 0) + (IF f.df THEN 1024 ELSE 0)
      + (IF f.of THEN 2048 ELSE 0) + 4096 * f.iopl
      + (IF f.nt THEN 16384 ELSE 0) + (IF f.rf THEN 65536 ELSE 0)
      + (IF f.vm THEN 131072 ELSE 0) + (IF f.ac THEN 262144 ELSE 0)
      + (IF f.vif THEN 524288 ELSE 0) + (IF f.vip THEN 1048576 ELSE 0)
      + (IF f.id THEN 2097152 ELSE 0)

\* CPU::getFlags: the low word
getFlags(f) == getEFlags(f) % 65536

\* (WORD)source of CPU::InterruptSource
SourceBit(source) == IF source = "External" THEN 1 ELSE 0

\* makeErrorCode (lines 67-72): (num << 3) | 2 | source, or num & 0xfc
makeErrorCode(num, idt, source) ==
    IF idt THEN ((num * 8) % 65536) + 2 + SourceBit(source)
    ELSE (num % 256) - (num % 4)

\* an IDT entry: the descriptor type (5 task gate, 6 and 7 the 16-bit
\* interrupt and trap gate, 14 and 15 the 32-bit ones), DPL, present bit,
\* target selector and offset
Gate(type, dpl, present, selector, offset) ==
    [type |-> type, dpl |-> dpl, present |-> present, selector |-> selector,
     offset |-> offset]

\* the guest's IDT, vectors 0 .. 17
GuestIDT ==
    <<Gate(14, 0, TRUE, 8, 512),        \* 0: interrupt gate, DPL 0
      Gate(15, 3, TRUE, 8, 512),        \* 1: trap gate
      Gate(6, 3, TRUE, 8, 512),         \* 2: 16-bit interrupt gate
      Gate(7, 3, TRUE, 8, 512),         \* 3: 16-bit trap gate
      Gate(14, 3, FALSE, 8, 512),       \* 4: not present
      Gate(0, 3, TRUE, 0, 0),           \* 5: null type, marked present
      Gate(0, 0, FALSE, 0, 0),          \* 6: all zero
      Gate(14, 3, TRUE, 40, 512),       \* 7: to a code segment not present
      Gate(14, 3, TRUE, 56, 512),       \* 8: to a data segment
      Gate(15, 3, TRUE, 16, 512),       \* 9: to ring-3 code
      Gate(12, 3, TRUE, 8, 512),        \* 10: a call gate
      Gate(12, 3, TRUE, 40, 512),       \* 11: a call gate, segment not present
      Gate(14, 3, TRUE, 24, 512),       \* 12: to conforming ring-0 code
      Gate(5, 3, TRUE, 128, 0),         \* 13: task gate
      Gate(14, 3, TRUE, 8, 2097152),    \* 14: offset above the limit
      Gate(14, 3, TRUE, 432, 512),      \* 15: selector 0x1b0, outside the GDT
      Gate(14, 0, FALSE, 8, 512),       \* 16: DPL 0, not present
      Gate(5, 3, TRUE, 136, 0)>>        \* 17: task gate, TSS not present

\* the IDTR that covers exactly this table
IdtTable == [base |-> 2048, limit |-> 8 * Len(GuestIDT) - 1]

\* CPU::getInterruptGate
getInterruptGate(isr) == GuestIDT[isr + 1]

\* Gate::is32Bit: bit 3 of the type
is32Bit(gate) == gate.type >= 8

\* only the 32-bit trap gate
isTrap_386_only(gate) == gate.type = 15
\* lines 184-188: types 7 and 0xf are trap gates
isTrap(gate) == gate.type \in {7, 15}

\* the DPL of the gate counts for every source
gate_dpl_refuses_every_source(gate, c, source) == gate.dpl < c
\* line 133: the DPL of the gate counts for software interrupts
gate_dpl_refuses(gate, c, source) == source = "Internal" /\ gate.dpl < c

\* the registers, flags and memory a delivery works on
DeliveryState ==
    [cs |-> m_cs, eip |-> m_eip, cpl |-> cpl, ss |-> m_ss, esp |-> m_esp,
     segs |-> m_data_segments, mem |-> m_memory, pushes |-> << >>,
     flags |-> m_flags]

\* a real-mode delivery that clears IF and TF before it reads the flags
realModeFrame_after_clear(st, isr) ==
    LET landed == [st EXCEPT
                      !.cs = read_physical_memory16(st.mem, isr * 4 + 2),
                      !.eip = read_physical_memory16(st.mem, isr * 4),
                      !.flags.if = FALSE, !.flags.tf = FALSE]
    IN  Finished(push_value_with_size(
                     push_value_with_size(
                         push_value_with_size(landed, getFlags(landed.flags),
                                              2),
                         st.cs, 2),
                     st.eip % 65536, 2))

\* CPU::realModeInterrupt with its pushes (lines 102-127)
realModeFrame(st, isr) ==
    LET landed == [st EXCEPT
                      !.cs = read_physical_memory16(st.mem, isr * 4 + 2),
                      !.eip = read_physical_memory16(st.mem, isr * 4)]
        pushed == push_value_with_size(
                      push_value_with_size(
                          push_value_with_size(landed, getFlags(st.flags), 2),
                          st.cs, 2),
                      st.eip % 65536, 2)
    IN  Finished([pushed EXCEPT !.flags.if = FALSE, !.flags.tf = FALSE])

\* CPU::interruptToTaskGate (lines 74-100); the TSS descriptors of the guest
\* are in the GDT and not busy
interruptToTaskGate(st, source, gate) ==
    LET tssDescriptor == get_descriptor(gate.selector)
    IN  IF (gate.selector \div 4) % 2 = 1
        THEN Thrown(st, "GP", makeErrorCode(gate.selector, FALSE, source))
        ELSE IF tssDescriptor.kind # "tss"
        THEN Thrown(st, "GP", makeErrorCode(gate.selector, FALSE, source))
        ELSE IF ~tssDescriptor.present
        THEN Thrown(st, "GP", makeErrorCode(gate.selector, FALSE, source))
        ELSE [st |-> st, outcome |-> "task_switch", error |-> 0,
              link |-> TRUE]

\* the frame in another order: CS, EIP, then the flags
interrupt_frame_flags_last(st, flags, cs, eip, errorCode, size) ==
    LET pushed == push_value_with_size(
                      push_value_with_size(
                          push_value_with_size(st, cs, size),
                          eip, size),
                      flags, size)
    IN  IF errorCode = << >> THEN pushed
        ELSE push_value_with_size(pushed, errorCode[1], size)

\* lines 278-292: the flags, CS and EIP, then the error code if there is one
interrupt_frame(st, flags, originalCS, originalEIP, errorCode, size) ==
    LET pushed == push_value_with_size(
                      push_value_with_size(
                          push_value_with_size(st, flags, size),
                          originalCS, size),
                      originalEIP, size)
    IN  IF errorCode = << >> THEN pushed
        ELSE push_value_with_size(pushed, errorCode[1], size)

\* lines 294-305: IF cleared unless through a trap gate, TF, RF and NT
\* cleared, CS:EIP loaded from the gate
enter_handler(st, gate, offset) ==
    [set_cs(st, gate.selector) EXCEPT
        !.flags.if = IF isTrap(gate) THEN @ ELSE FALSE,
        !.flags.tf = FALSE, !.flags.rf = FALSE, !.flags.nt = FALSE,
        !.eip = offset]

\* lines 232-271: the stack of the inner ring from the TSS, the old SS and
\* ESP pushed on it
inner_stack(st, source, gate, descriptor) ==
    LET newSS == get_ring_ss(st, descriptor.dpl)
        newSSDescriptor == get_descriptor(newSS)
        size == IF is32Bit(gate) THEN 4 ELSE 2
    IN  IF newSSDescriptor.kind = "null"
        THEN Thrown(st, "TS", SourceBit(source))
        ELSE IF newSSDescriptor.kind = "outside"
        THEN Thrown(st, "TS", makeErrorCode(newSS, FALSE, source))
        ELSE IF newSSDescriptor.dpl # descriptor.dpl
        THEN Thrown(st, "TS", makeErrorCode(newSS, FALSE, source))
        ELSE IF newSSDescriptor.kind # "data" \/ ~newSSDescriptor.writable
        THEN Thrown(st, "TS", makeErrorCode(newSS, FALSE, source))
        ELSE IF ~newSSDescriptor.present
        THEN Thrown(st, "SS", makeErrorCode(newSS, FALSE, source))
        ELSE Finished(
                 [push_value_with_size(
                      push_value_with_size(
                          [st EXCEPT !.ss = newSS,
                                     !.esp = get_ring_esp(st, descriptor.dpl)],
                          st.ss, size),
                      st.esp, size)
                  EXCEPT !.cpl = descriptor.dpl])

\* lines 197-306: the delivery through an interrupt or trap gate whose
\* target passed the checks
through_gate(st, source, errorCode, gate, descriptor, offset, inner) ==
    IF offset > descriptor.limit THEN Thrown(st, "GP", 0)
    ELSE IF ~descriptor.conforming /\ descriptor.dpl < st.cpl
            /\ inner.outcome # "ok"
    THEN inner
    ELSE Finished(enter_handler(
                      interrupt_frame(
                          IF ~descriptor.conforming /\ descriptor.dpl < st.cpl
                          THEN inner.st ELSE st,
                          getEFlags(st.flags), st.cs, st.eip, errorCode,
                          IF is32Bit(gate) THEN 4 ELSE 2),
                      gate, offset))

\* lines 160-195: the checks of the gate's target and of the gate's type
to_code_segment(st, isr, source, errorCode, gate, descriptor) ==
    IF descriptor.kind # "code"
    THEN Thrown(st, "GP", makeErrorCode(gate.selector, FALSE, source))
    ELSE IF descriptor.dpl > st.cpl
    THEN Thrown(st, "GP", makeErrorCode(gate.selector, FALSE, source))
    ELSE IF ~descriptor.present
    THEN Thrown(st, "NP", makeErrorCode(gate.selector, FALSE, source))
    ELSE IF gate.type \notin {6, 7, 14, 15} THEN Thrown(st, "GP", isr)
    ELSE through_gate(st, source, errorCode, gate, descriptor,
                      IF ~is32Bit(gate) \/ ~descriptor.is_32bit
                      THEN gate.offset % 65536 ELSE gate.offset,
                      inner_stack(st, source, gate, descriptor))

\* CPU::protectedModeInterrupt with its pushes (lines 129-306)
protectedModeFrame(st, isr, source, errorCode, gate) ==
    IF gate_dpl_refuses(gate, st.cpl, source)
    THEN Thrown(st, "GP", makeErrorCode(isr, TRUE, source))
    ELSE IF ~gate.present
    THEN Thrown(st, "NP", makeErrorCode(isr, TRUE, source))
    ELSE IF gate.type = 0
    THEN Thrown(st, "GP", makeErrorCode(isr, TRUE, source))
    ELSE IF gate.type = 5 THEN interruptToTaskGate(st, source, gate)
    ELSE to_code_segment(st, isr, source, errorCode, gate,
                         get_descriptor(gate.selector))

\* CPU::interrupt (lines 308-314)
interrupt_result(st, isr, source, errorCode) ==
    IF get_pe
    THEN protectedModeFrame(st, isr, source, errorCode, getInterruptGate(isr))
    ELSE realModeFrame(st, isr)

\* one call of CPU::interrupt: what it leaves in the registers, the flags
\* and memory
Delivered(isr, source, errorCode, r) ==
    /\ m_cs' = r.st.cs
    /\ m_eip' = r.st.eip
    /\ cpl' = r.st.cpl
    /\ m_ss' = r.st.ss
    /\ m_esp' = r.st.esp
    /\ m_flags' = r.st.flags
    /\ m_memory' = r.st.mem
    /\ last_int' = [isr |-> isr, source |-> source]
    /\ jump' = [op |-> "INT", selector |-> isr, offset |-> 0, o32 |-> FALSE,
                adjustment |-> 0, outcome |-> r.outcome, error |-> r.error,
                link |-> r.link, pushes |-> r.st.pushes,
                from |-> [cs |-> m_cs, eip |-> m_eip, esp |-> m_esp],
                code |-> errorCode]
    /\ m_cycle' = m_cycle + 1
    /\ done' = "interrupt"
    /\ UNCHANGED <<m_gpr, m_cr0, m_cr2, m_cr3, m_cr4, m_dr, m_gdtr, m_idtr,
                   m_ldtr, m_segment_prefix, m_data_segments,
                   m_next_instruction_is_uninterruptible, m_state,
                   m_should_hard_reboot, m_debugger_request,
                   m_main_loop_needs_slow_stuff, m_is_for_autotest, irq_skipped,
                   debugger_active, pic_pending, pc, xlate, access, physVars,
                   segVars>>

\* a software interrupt, an exception or a hardware IRQ is delivered
interrupt_with_frame(isr, source, errorCode) ==
    Delivered(isr, source, errorCode,
              interrupt_result(DeliveryState, isr, source, errorCode))

Vectors == 0 .. Len(GuestIDT) - 1
Sources == {"Internal", "External"}
ErrorCodes == {<< >>, <<43>>}

\* memory that holds the real-mode IVT: the handler of vector v at
\* (0x2000 + v):(0x0100 + v), offset word first
GuestIVT ==
    [a \in {x \in 0 .. 4 * Len(GuestIDT) - 1 : x % 2 = 1 \/ x \div 4 # 0} |->
        IF a % 4 = 1 THEN 1 ELSE IF a % 4 = 3 THEN 32 ELSE a \div 4]

\* flags of the interrupted program: IF, TF, NT, RF and arithmetic flags set
\* and clear
GuestFlags ==
    {ResetFlags,
     [ResetFlags EXCEPT !.tf = TRUE, !.sf = TRUE],
     [ResetFlags EXCEPT !.if = FALSE, !.cf = TRUE, !.df = TRUE],
     [ResetFlags EXCEPT !.nt = TRUE, !.rf = TRUE, !.tf = TRUE, !.zf = TRUE]}

\* the interrupted program in real mode (stack at 0800:1000 or 0800:0004),
\* or in protected mode in ring 0 or ring 3 with the guest's GDT and IDT
InitInterrupt ==
    /\ QuietFarCore
    /\ m_gpr = [r \in Regs |-> 0]
    /\ m_flags \in GuestFlags
    /\ m_memory = GuestIVT @@ TssImage(RingSS, RingESP)
    /\ m_data_segments = [r \in {"DS", "ES", "FS", "GS"} |-> 0]
    /\ \E ring \in {"real", "ring0", "ring3"} :
          /\ m_cr0 = (IF ring = "real" THEN {} ELSE {PE})
          /\ m_idtr = (IF ring = "real" THEN [base |-> 0, limit |-> 1023]
                       ELSE IdtTable)
          /\ m_cs = (IF ring = "ring3" THEN 19
                     ELSE IF ring = "ring0" THEN GateSelector ELSE EntryCS)
          /\ cpl = (IF ring = "ring3" THEN 3 ELSE 0)
          /\ m_ss = (IF ring = "ring3" THEN UserSS
                     ELSE IF ring = "ring0" THEN RingSS ELSE 2048)
          /\ m_esp \in (IF ring = "ring3" THEN {UserESP}
                        ELSE IF ring = "ring0" THEN {28672} ELSE {4096, 4})

NextInterrupt ==
    /\ m_cycle < MaxTransfers
    /\ \E isr \in Vectors, source \in Sources, errorCode \in ErrorCodes :
          interrupt_with_frame(isr, source, errorCode)

SpecInterrupt == InitInterrupt /\ [][NextInterrupt]_vars

-----------------------------------------------------------------------------
(* A protected-mode guest that mixes far jumps and calls, far returns and    *)
(* interrupt deliveries, each working on the stack the one before left.      *)

TransferSelectors == GateCallSelectors \cup {16, 24}
TransferOffsets == {256, 2097152}
\* the stack selectors a frame or the TSS holds: the guest's own, a code
\* segment and the null selector
FrameStacks == {UserSS, 19, 0}
TssStacks == {RingSS, 8}

\* a far-call frame that names the caller's stack too
OuterFrame(width, offset, selector, ss) ==
    SaveBytes(ReturnFrame(width, offset, selector),
              CalleeESP + 3 * width, width, ss)

\* ring 0 or ring 3 under PE = 1 with the guest's GDT, IDT and TSS; the
\* stack pointer at a far-call frame
InitTransfers ==
    /\ QuietFarCore
    /\ m_gpr = [r \in Regs |-> 0]
    /\ m_idtr = IdtTable
    /\ m_flags = ResetFlags
    /\ m_cr0 = {PE}
    /\ \E ring \in {"ring0", "ring3"} :
          /\ m_cs = (IF ring = "ring3" THEN 19 ELSE GateSelector)
          /\ cpl = (IF ring = "ring3" THEN 3 ELSE 0)
          /\ m_ss = (IF ring = "ring3" THEN UserSS ELSE RingSS)
    /\ m_esp = CalleeESP
    /\ \E width \in FrameWidths, selector \in {8, 19, 59},
          ss \in FrameStacks, ring0 \in TssStacks :
          m_memory = OuterFrame(width, 256, selector, ss)
                        @@ TssImage(ring0, RingESP)
    /\ m_data_segments = [r \in {"DS", "ES", "FS", "GS"} |->
                             IF r = "DS" THEN RingSS
                             ELSE IF r = "ES" THEN UserSS ELSE 0]

NextTransfers ==
    /\ m_cycle < MaxTransfers
    /\ \/ \E selector \in TransferSelectors, offset \in TransferOffsets,
            type \in JumpTypes, o32 \in BOOLEAN :
            far_jump(selector, offset, type, o32)
       \/ \E stack_adjustment \in StackAdjustments, o32 \in BOOLEAN :
            far_return(stack_adjustment, o32)
       \/ \E isr \in Vectors, source \in Sources :
            interrupt_with_frame(isr, source, << >>)

SpecTransfers == InitTransfers /\ [][NextTransfers]_vars

-----------------------------------------------------------------------------
(* Near jumps: CPU::jump_relative8/16/32 and CPU::jump_absolute16/32         *)
(* (src/x86/CPU.cpp 535-566), next to far jumps into 16- and 32-bit          *)
(* segments.  m_eip is a u32; the jumps taken keep it inside 0 .. 2^31 - 1.  *)

\* near and far jumps in one run
MaxNearJumps == 2

\* CPU::jump_relative8, jump_relative16, jump_relative32: m_eip += displacement
jump_relative8(st, displacement) == [st EXCEPT !.eip = @ + displacement]
jump_relative16(st, displacement) == [st EXCEPT !.eip = @ + displacement]
jump_relative32(st, displacement) == [st EXCEPT !.eip = @ + displacement]
\* CPU::jump_absolute16, jump_absolute32: m_eip = address
jump_absolute16(st, address) == [st EXCEPT !.eip = address]
jump_absolute32(st, address) == [st EXCEPT !.eip = address]

\* a near jump of the running code segment; o32 is the operand size of the
\* instruction that made it.  Jumps that would borrow from below zero are
\* left out
NearTransfer(op, value, o32, st) ==
    /\ jump.outcome # "abort"
    /\ st.eip >= 0
    /\ FarTransfer(op, m_cs, value, o32, 0, Finished(st))

Displacements8 == {-128, 5, 127}
Displacements16 == {-256, 5, 32767}
Displacements32 == {-256, 5, 65536}
Addresses16 == {0, 65534, 65535}
Addresses32 == {0, 74565}

\* ring 0 in real mode, in the guest's 16-bit code segment (selector 0x30)
\* or in its 32-bit code segment (selector 0x08)
InitNearJump ==
    /\ QuietFarCore
    /\ m_gpr = [r \in Regs |-> 0]
    /\ m_idtr = EmptyTable
    /\ m_flags = ResetFlags
    /\ cpl = 0
    /\ \E mode \in {"real", "code16", "code32"} :
          /\ m_cr0 = (IF mode = "real" THEN {} ELSE {PE})
          /\ m_cs = (IF mode = "real" THEN EntryCS
                     ELSE IF mode = "code16" THEN 48 ELSE GateSelector)
          /\ m_ss = (IF mode = "real" THEN 2048 ELSE RingSS)
    /\ m_esp = 28672
    /\ m_memory = TssImage(RingSS, RingESP)
    /\ m_data_segments = [r \in {"DS", "ES", "FS", "GS"} |-> 0]

NextNearJump ==
    /\ m_cycle < MaxNearJumps
    /\ \/ \E displacement \in Displacements8, o32 \in BOOLEAN :
            NearTransfer("rel8", displacement, o32,
                         jump_relative8(FarState, displacement))
       \/ \E displacement \in Displacements16 :
            NearTransfer("rel16", displacement, FALSE,
                         jump_relative16(FarState, displacement))
       \/ \E displacement \in Displacements32 :
            NearTransfer("rel32", displacement, TRUE,
                         jump_relative32(FarState, displacement))
       \/ \E address \in Addresses16 :
            NearTransfer("abs16", address, FALSE,
                         jump_absolute16(FarState, address))
       \/ \E address \in Addresses32 :
            NearTransfer("abs32", address, TRUE,
                         jump_absolute32(FarState, address))
       \/ \E selector \in {48, GateSelector}, offset \in FarOffsets,
            type \in JumpTypes, o32 \in BOOLEAN :
            far_jump(selector, offset, type, o32)

SpecNearJump == InitNearJump /\ [][NextNearJump]_vars

-----------------------------------------------------------------------------
(* 80186 instructions and POP CS: VCpu::_PUSHA, VCpu::_BOUND                 *)
(* (src/x86/186.cpp), CPU::_BOUND, CPU::doBOUND (src/x86/CPU.cpp 1797-1825)  *)
(* and _POP_CS (src/8086/stack.c 58-62).                                     *)

\* instructions in one run of the guest
MaxExecuted == 1

\* the low word of a general register: getAX() ... getDI()
Word(gpr, r) == gpr[r] % 65536

\* a PUSHA that stores SP as it is when its turn comes
PUSHA_current_sp(st, gpr) ==
    LET upto == push_value_with_size(
                    push_value_with_size(
                        push_value_with_size(
                            push_value_with_size(st, Word(gpr, "EAX"), 2),
                            Word(gpr, "ECX"), 2),
                        Word(gpr, "EDX"), 2),
                    Word(gpr, "EBX"), 2)
    IN  push_value_with_size(
            push_value_with_size(
                push_value_with_size(
                    push_value_with_size(upto, upto.esp % 65536, 2),
                    Word(gpr, "EBP"), 2),
                Word(gpr, "ESI"), 2),
            Word(gpr, "EDI"), 2)

\* VCpu::_PUSHA (186.cpp 85-96): oldSP = getSP(), then eight pushes
PUSHA(st, gpr) ==
    push_value_with_size(
        push_value_with_size(
            push_value_with_size(
                push_value_with_size(
                    push_value_with_size(
                        push_value_with_size(
                            push_value_with_size(
                                push_value_with_size(st, Word(gpr, "EAX"), 2),
                                Word(gpr, "ECX"), 2),
                            Word(gpr, "EDX"), 2),
                        Word(gpr, "EBX"), 2),
                    st.esp % 65536, 2),
                Word(gpr, "EBP"), 2),
            Word(gpr, "ESI"), 2),
        Word(gpr, "EDI"), 2)

\* what an instruction of this section leaves: the stack, memory and the
\* record of what it did; everything else stays
Executed(op, offset, o32, r) ==
    /\ m_ss' = r.st.ss
    /\ m_esp' = r.st.esp
    /\ m_memory' = r.st.mem
    /\ m_cs' = r.st.cs
    /\ m_eip' = r.st.eip
    /\ jump' = [op |-> op, selector |-> 0, offset |-> offset, o32 |-> o32,
                adjustment |-> 0, outcome |-> r.outcome, error |-> r.error,
                link |-> FALSE, pushes |-> r.st.pushes,
                from |-> [cs |-> m_cs, eip |-> m_eip, esp |-> m_esp],
                code |-> << >>]
    /\ m_cycle' = m_cycle + 1
    /\ done' = "insn"
    /\ UNCHANGED <<cpuRegs, m_flags, cpl, m_data_segments,
                   m_next_instruction_is_uninterruptible, m_state,
                   m_should_hard_reboot, m_debugger_request,
                   m_main_loop_needs_slow_stuff, m_is_for_autotest, irq_skipped,
                   debugger_active, pic_pending, pc, last_int, xlate, access,
                   physVars, segVars>>

\* opcode 0x60
_PUSHA ==
    /\ jump.outcome # "abort"
    /\ Executed("PUSHA", 0, FALSE, Finished(PUSHA(FarState, m_gpr)))

\* _POP_CS (stack.c 58-62): a line in the log, nothing else
_POP_CS ==
    /\ jump.outcome # "abort"
    /\ Executed("POP_CS", 0, FALSE, Finished(FarState))

\* a value of the given width read as a signed integer (i16, i32)
AsSigned(v, size) ==
    IF size = 2 /\ v >= 32768 THEN v - 65536 ELSE v

\* the operand of BOUND at DS:offset in real mode
BoundAt(st, offset, size) ==
    LoadBytes(st.mem, 16 * st.segs["DS"] + offset, size)

\* CPU::doBOUND<T> (CPU.cpp 1797-1816): #UD for a register operand, else
\* the signed comparison with the two bounds in memory
doBOUND(st, gpr, offset, size, isRegister) ==
    IF isRegister THEN Thrown(st, "UD", 0)
    ELSE IF /\ AsSigned(OperandOf(gpr["EAX"], size), size)
                >= AsSigned(BoundAt(st, offset, size), size)
            /\ AsSigned(OperandOf(gpr["EAX"], size), size)
                <= AsSigned(BoundAt(st, offset + size, size), size)
    THEN Finished(st)
    ELSE Thrown(st, "BR", 0)

\* CPU::_BOUND (CPU.cpp 1818-1825): i16 or i32 by the operand size
CPU_BOUND(offset, o32, isRegister) ==
    /\ jump.outcome # "abort"
    /\ Executed("BOUND", offset, o32,
                doBOUND(FarState, m_gpr, offset, IF o32 THEN 4 ELSE 2,
                        isRegister))

\* VCpu::_BOUND (186.cpp 30-41): VM_ASSERT(false), which ends the emulator
\* in a build that checks assertions; in one that does not, the comparison
\* of index, ptr[0] and ptr[1] as unsigned WORDs and exception(5)
VCpu_BOUND_result(st, gpr, offset, asserts) ==
    IF asserts
    THEN [st |-> st, outcome |-> "abort", error |-> 0, link |-> FALSE]
    ELSE IF Word(gpr, "EAX") < BoundAt(st, offset, 2)
            \/ Word(gpr, "EAX") > BoundAt(st, offset + 2, 2)
    THEN Thrown(st, "BR", 0)
    ELSE Finished(st)

VCpu_BOUND(offset) ==
    /\ jump.outcome # "abort"
    /\ \E asserts \in BOOLEAN :
          Executed("VCpu::BOUND", offset, FALSE,
                   VCpu_BOUND_result(FarState, m_gpr, offset, asserts))

\* the guest's bound pairs at DS:0200 (-2, 5), DS:0204 (1, 10) as words and
\* DS:0210 (2, 0x12345) as doublewords
BoundPairs ==
    (512 :> 254 @@ 513 :> 255 @@ 514 :> 5 @@ 516 :> 1 @@ 518 :> 10
        @@ 528 :> 2 @@ 532 :> 69 @@ 533 :> 35 @@ 534 :> 1)
BoundOffsets == {512, 516, 528}

\* register files of the guest: the index of BOUND in EAX (3, -1 as a word,
\* 0x12345, 11), the others distinct, some with bits above bit 15
RegisterFiles ==
    {[r \in Regs |->
         IF r = "EAX" THEN eax
         ELSE IF r = "ECX" THEN 8738 ELSE IF r = "EDX" THEN 13107
         ELSE IF r = "EBX" THEN 17476 + high
         ELSE IF r = "ESP" THEN 0
         ELSE IF r = "EBP" THEN 21845 ELSE IF r = "ESI" THEN 26214 + high
         ELSE 30583] : eax \in {3, 65535, 74565, 11}, high \in {0, 65536}}

\* a real-mode program with its stack at 0800:SP
InitExecute ==
    /\ QuietFarCore
    /\ m_gpr \in RegisterFiles
    /\ m_idtr = EmptyTable
    /\ m_flags = ResetFlags
    /\ m_cr0 = {}
    /\ m_cs = EntryCS
    /\ cpl = 0
    /\ m_ss = 2048
    /\ m_esp \in {4096, 8, 65535}
    /\ m_memory = BoundPairs
    /\ m_data_segments = [r \in {"DS", "ES", "FS", "GS"} |-> 0]

NextExecute ==
    /\ m_cycle < MaxExecuted
    /\ \/ _PUSHA
       \/ _POP_CS
       \/ \E offset \in BoundOffsets, o32 \in BOOLEAN, isRegister \in BOOLEAN :
             CPU_BOUND(offset, o32, isRegister)
       \/ \E offset \in BoundOffsets : VCpu_BOUND(offset)

SpecExecute == InitExecute /\ [][NextExecute]_vars

-----------------------------------------------------------------------------
(* ENTER: VCpu::_ENTER (src/x86/186.cpp 56-75), in real mode with 16-bit     *)
(* operands and addresses.                                                   *)

\* lines 66-69: for (i = 1; i < nestingLevel - 1; ++i), each turn a push of
\* the word at SS:BP; tmpBP is counted down and never read
RECURSIVE ENTER_loop(_, _, _, _)
ENTER_loop(st, bp, i, nestingLevel) ==
    IF ~(i < nestingLevel - 1) THEN st
    ELSE ENTER_loop(push_value_with_size(
                        st, LoadBytes(st.mem, StackAddress(st, bp), 2), 2),
                    bp, i + 1, nestingLevel)

\* VCpu::_ENTER: the stack it leaves and the frame pointer it sets
ENTER(st, bp, size, level) ==
    LET nestingLevel == level % 32
        first        == push_value_with_size(st, bp, 2)
        frameTemp    == first.esp % 65536
        pushed       == IF nestingLevel > 0
                        THEN push_value_with_size(
                                 ENTER_loop(first, bp, 1, nestingLevel),
                                 frameTemp, 2)
                        ELSE first
    IN  [st |-> [pushed EXCEPT !.esp = adjust_stack_pointer(@, 0 - size)],
         bp |-> frameTemp]

\* opcode 0xC8: ENTER imm16, imm8
_ENTER(size, level) ==
    LET r == ENTER(FarState, Word(m_gpr, "EBP"), size, level)
    IN  /\ jump.outcome # "abort"
        /\ m_esp' = r.st.esp
        /\ m_memory' = r.st.mem
        /\ m_gpr' = [m_gpr EXCEPT !["EBP"] = (@ - (@ % 65536)) + r.bp]
        /\ jump' = [op |-> "ENTER", selector |-> 0, offset |-> size,
                    o32 |-> FALSE, adjustment |-> level, outcome |-> "ok",
                    error |-> 0, link |-> FALSE, pushes |-> r.st.pushes,
                    from |-> [cs |-> m_cs, eip |-> m_eip, esp |-> m_esp],
                    code |-> << >>]
        /\ m_cycle' = m_cycle + 1
        /\ done' = "insn"
        /\ UNCHANGED <<m_cr0, m_cr2, m_cr3, m_cr4, m_dr, m_gdtr, m_idtr,
                       m_ldtr, m_segment_prefix, cpuFlow, m_ss,
                       m_data_segments,
                       m_next_instruction_is_uninterruptible, m_state,
                       m_should_hard_reboot, m_debugger_request,
                       m_main_loop_needs_slow_stuff, m_is_for_autotest,
                       irq_skipped, debugger_active, pic_pending, pc,
                       last_int, xlate, access, physVars, segVars>>

FrameSizes == {0, 16, 65535}
NestingLevels == {0, 1, 2, 3, 4, 33}
FramePointers == {8192, 8194}

\* the display of the enclosing procedure: the words at SS:BP, SS:BP - 2,
\* ... hold 0x1100, 0x1101, ...
Display(bp) ==
    [a \in {2048 * 16 + bp - 2 * k + b : k \in 0 .. 4, b \in {0, 1}} |->
        IF a % 2 = 1 THEN 17 ELSE (2048 * 16 + bp - a) \div 2]

\* a real-mode procedure about to run ENTER, its stack at 0800:SP
InitEnter ==
    /\ QuietFarCore
    /\ \E bp \in FramePointers, high \in {0, 65536} :
          /\ m_gpr = [r \in Regs |-> IF r = "EBP" THEN bp + high ELSE 0]
          /\ m_memory = Display(bp)
    /\ m_idtr = EmptyTable
    /\ m_flags = ResetFlags
    /\ m_cr0 = {}
    /\ m_cs = EntryCS
    /\ cpl = 0
    /\ m_ss = 2048
    /\ m_esp \in {4096, 4, 2, 65535}
    /\ m_data_segments = [r \in {"DS", "ES", "FS", "GS"} |-> 0]

NextEnter ==
    /\ m_cycle < MaxExecuted
    /\ \E size \in FrameSizes, level \in NestingLevels : _ENTER(size, level)

SpecEnter == InitEnter /\ [][NextEnter]_vars

-----------------------------------------------------------------------------
(* Claims about reset and the main loop *)

\* a step of the CPU thread that left its position in the main loop
CpuMoved == pc' # pc

\* C1: after CPU::reset, at construction and after every hard reboot, the
\* eight general registers, CR0/CR2/CR3/CR4 and DR0-DR7 are 0, GDTR/IDTR/LDTR
\* are empty, there is no segment prefix, the uninterruptible-next flag is
\* clear, the state is Alive, the cycle counter is 0, EFLAGS is the image
\* 0x0200 (IF alone) with IOPL 3, and CS:EIP is F000:0000, or the configured
\* entry point of an autotest machine.
C1_ResetState ==
    done \in {"construct", "reboot"} =>
        /\ \A r \in Regs : m_gpr[r] = 0
        /\ m_cr0 = {} /\ m_cr2 = 0 /\ m_cr3 = 0 /\ m_cr4 = 0
        /\ \A n \in DebugRegs : m_dr[n] = 0
        /\ m_gdtr = [base |-> 0, limit |-> 0]
        /\ m_idtr = [base |-> 0, limit |-> 0]
        /\ m_ldtr = [base |-> 0, limit |-> 0]
        /\ m_segment_prefix = "None"
        /\ ~m_next_instruction_is_uninterruptible
        /\ m_state = "Alive"
        /\ m_cycle = 0
        /\ m_flags.if /\ m_flags.iopl = 3
        /\ ~m_flags.cf /\ ~m_flags.pf /\ ~m_flags.af /\ ~m_flags.zf
        /\ ~m_flags.sf /\ ~m_flags.tf /\ ~m_flags.df /\ ~m_flags.of
        /\ ~m_flags.nt /\ ~m_flags.rf /\ ~m_flags.vm /\ ~m_flags.ac
        /\ ~m_flags.vif /\ ~m_flags.vip /\ ~m_flags.id
        /\ IF m_is_for_autotest
           THEN m_cs = EntryCS /\ m_eip = EntryIP
           ELSE m_cs = 61440 /\ m_eip = 0

\* a hard reboot of an autotest machine has just reset the CPU
C1_Witness == done = "reboot" /\ m_is_for_autotest /\ pc = "exec"

\* C2: PIC::service_irq is invoked, between instructions and in the HLT idle
\* loop alike, only in a state where the PIC has a pending IRQ and IF is set.
C2_IrqNeedsPendingAndIF ==
    [][(CpuMoved /\ done' = "irq") =>
          /\ pic_pending /\ get_if
          /\ pc \in {"irq", "halted"}
          /\ last_int' = [isr |-> IRQVector, source |-> "External"]]_vars

\* an IRQ has been serviced inside the HLT idle loop
C2_Witness == done = "irq" /\ pc = "hlt_ret"

\* C3: when an instruction has set the uninterruptible-next flag, the main
\* loop delivers neither the single-step interrupt nor a pending IRQ before
\* the following instruction: it clears the flag and starts the next
\* iteration.  Only executing an instruction sets the flag, so each setting
\* skips the checks once, and at every instruction boundary where the flag is
\* clear the TF and IRQ checks run.
C3_UninterruptibleSkip ==
    /\ [][(pc = "post" /\ m_next_instruction_is_uninterruptible /\ CpuMoved) =>
             /\ ~m_next_instruction_is_uninterruptible'
             /\ pc' = "top"
             /\ done' = "skip"
             /\ UNCHANGED <<m_flags, m_cs, m_eip, cpl, last_int, pic_pending,
                            m_state, m_cycle>>]_vars
       \* only instruction execution sets the flag
    /\ [][(~m_next_instruction_is_uninterruptible
            /\ m_next_instruction_is_uninterruptible') => pc = "exec"]_vars
       \* with the flag clear the checks run: TF here, the IRQ check next
    /\ [][(pc = "post" /\ ~m_next_instruction_is_uninterruptible /\ CpuMoved) =>
             /\ pc' = "irq"
             /\ (get_tf <=> done' = "db")]_vars
    /\ [][(pc = "irq" /\ CpuMoved) =>
             ((pic_pending /\ get_if) <=> done' = "irq")]_vars

\* the checks have been skipped while an IRQ was pending and IF was set
C3_Witness == done = "skip" /\ pic_pending /\ get_if /\ pc = "top"

\* the CPU registers a reset leaves, seen in the state after a step
RebootedCpu ==
    /\ m_cycle' = 0 /\ m_state' = "Alive" /\ m_cr0' = {}
    /\ m_gpr' = [r \in Regs |-> 0]
    /\ m_cs' = (IF m_is_for_autotest THEN EntryCS ELSE 61440)
    /\ m_eip' = (IF m_is_for_autotest THEN EntryIP ELSE 0)
    /\ m_flags'.if /\ ~m_flags'.tf
    /\ ~m_next_instruction_is_uninterruptible'

\* C4 as stated: the latched request is consumed only by the main loop's
\* slow-path check.
C4_Original ==
    [][(m_should_hard_reboot /\ ~m_should_hard_reboot') => pc = "top"]_vars

\* C4, amended: a latched reboot request keeps the slow-path flag set and
\* stays latched until a hard reboot is performed, by the main loop's next
\* slow-path check or, when the CPU is halted, by the HLT idle loop; the
\* slow-path check with the request latched performs the reboot instead of
\* going on to the next instruction; the reboot resets the devices and the
\* CPU and clears the latch, and every reboot consumes a latched request.
C4_RebootLatch ==
    /\ [](m_should_hard_reboot => m_main_loop_needs_slow_stuff)
    /\ [][(m_should_hard_reboot /\ ~m_should_hard_reboot') =>
             /\ pc \in {"top", "halted"}
             /\ CpuMoved /\ done' = "reboot"
             /\ RebootedCpu
             /\ ~pic_pending']_vars
    /\ [][(pc = "top" /\ m_should_hard_reboot /\ CpuMoved) =>
             /\ ~m_should_hard_reboot'
             /\ done' = "reboot" /\ pc' = "exec"
             /\ RebootedCpu]_vars
    /\ [][(CpuMoved /\ done' = "reboot") =>
             (m_should_hard_reboot /\ ~m_should_hard_reboot')]_vars

\* the slow-path check has just performed a latched reboot
C4_Witness ==
    done = "reboot" /\ pc = "exec" /\ ~m_should_hard_reboot /\ ~m_is_for_autotest

\* C5: at an instruction boundary with TF set and the uninterruptible-next
\* flag clear, interrupt(1, Internal) is delivered before the IRQ check and
\* before the next instruction; the IRQ check of the same iteration then
\* services a pending IRQ iff IF is set in the flags that delivery left.
C5_SingleStepBeforeIrq ==
    /\ [][(pc = "post" /\ ~m_next_instruction_is_uninterruptible /\ get_tf
            /\ CpuMoved) =>
             /\ done' = "db"
             /\ last_int' = [isr |-> 1, source |-> "Internal"]
             /\ ~m_flags'.tf
             /\ pc' = "irq"
             /\ UNCHANGED <<pic_pending, m_cycle, m_state>>]_vars
       \* nothing changes the flags between the delivery and the IRQ check
    /\ [][(pc = "irq" /\ ~CpuMoved) => UNCHANGED <<m_flags, done>>]_vars
    /\ [][(pc = "irq" /\ CpuMoved) =>
             /\ pc' = "top"
             /\ m_cycle' = m_cycle
             /\ ((pic_pending /\ get_if) <=> done' = "irq")
             /\ (done' = "irq" =>
                   last_int' = [isr |-> IRQVector, source |-> "External"])]_vars

\* the single-step interrupt went through a trap gate: IF is still set and
\* the pending IRQ is about to be serviced in the same iteration
C5_Witness == done = "db" /\ pc = "irq" /\ pic_pending /\ get_if

Halted == m_state = "Halted"

\* C6 as stated: a pending IRQ with IF=1, a reboot request and an entered
\* debugger each eventually end the halt.
C6_Original ==
    (Halted /\ (\/ pic_pending /\ get_if
                \/ m_should_hard_reboot
                \/ debugger_active))
       ~> ~Halted

\* C6, amended: HLT at CPL 0 puts the CPU in the Halted state, in which the
\* CPU thread sits in the idle loop and executes no instruction; the halt ends
\* only when an IRQ is pending while IF=1 (the IRQ is then serviced) or a hard
\* reboot is requested, and each of these two eventually ends it; the
\* debugger does not end the halt (an active debugger runs its console inside
\* the loop, an EnterDebugger request is not served there), so with IF=0 and
\* no reboot request the CPU stays halted.
C6_HaltedLoop ==
    /\ [][(pc = "exec" /\ CpuMoved /\ done' = "hlt") =>
             /\ cpl = 0
             /\ Halted' /\ pc' = "halted"
             /\ m_cycle' = m_cycle]_vars
    /\ [](Halted => pc = "halted")
    /\ [][Halted => m_cycle' = m_cycle \/ m_should_hard_reboot]_vars
    /\ [][(Halted /\ ~Halted') =>
             \/ m_should_hard_reboot /\ done' = "reboot"
             \/ /\ pic_pending /\ get_if /\ done' = "irq"
                /\ last_int' = [isr |-> IRQVector, source |-> "External"]]_vars
    /\ (Halted /\ pic_pending /\ get_if) ~> ~Halted
    /\ (Halted /\ m_should_hard_reboot) ~> ~Halted

\* halted with IF=0 while the debugger is active
C6_Witness == Halted /\ ~get_if /\ debugger_active /\ done = "idle"

-----------------------------------------------------------------------------
(* Claims about the page walk *)

\* the last access went through the page walk (paging on, walk not aborted)
Walked == xlate.kind \in {"pf", "ok"}

\* the flag bits of the two entries the walk read
PdeP  == xlate.pde % 2 = 1
PteP  == xlate.pte % 2 = 1
PdeRW == (xlate.pde \div 2) % 2 = 1
PteRW == (xlate.pte \div 2) % 2 = 1
PdeUS == (xlate.pde \div 4) % 2 = 1
PteUS == (xlate.pte \div 4) % 2 = 1

\* bit n of the error code of the last fault
ErrorBit(n) == (xlate.error \div (2 ^ n)) % 2 = 1

\* the access counts as user-mode: CPL 3 when no effective CPL is given,
\* else the effective CPL is 3
UserAccess ==
    IF xlate.ecpl = 255 THEN cpl = 3 ELSE xlate.ecpl = 3

\* C7: with paging enabled, an access whose PDE has P=0, or whose PDE is
\* present and whose PTE has P=0, raises #PF (vector 14) with CR2 the linear
\* address and an error code with bit 0 clear, bit 1 set iff the access is a
\* write, bit 2 set iff it is user-mode, bit 4 set iff it is an instruction
\* fetch and no other bit; the PDE is checked before the PTE.
C7_NotPresentFault ==
    (Walked /\ (~PdeP \/ ~PteP)) =>
        /\ get_pe /\ get_pg
        /\ xlate.kind = "pf"
        /\ xlate.vector = 14
        /\ m_cr2 = xlate.lin
        /\ ~ErrorBit(0)
        /\ ErrorBit(1) <=> xlate.access = "Write"
        /\ ErrorBit(2) <=> UserAccess
        /\ ~ErrorBit(3)
        /\ ErrorBit(4) <=> xlate.access = "Execute"
        /\ xlate.error < 32
        /\ xlate.table = (IF ~PdeP THEN "PDE" ELSE "PTE")

\* a user-mode instruction fetch found the PDE present and the PTE not
C7_Witness ==
    /\ xlate.kind = "pf" /\ PdeP /\ ~PteP
    /\ xlate.access = "Execute" /\ UserAccess

\* C8 as stated: an access is user-mode when CPL is 3 or the effective CPL
\* is 3, and such an access to a present page with U/S=0 faults.
C8_Original ==
    (Walked /\ PdeP /\ PteP /\ (cpl = 3 \/ xlate.ecpl = 3)
        /\ (~PdeUS \/ ~PteUS)) =>
        (xlate.kind = "pf" /\ ErrorBit(0))

\* C8, amended: an access is user-mode when its effective CPL is 3 or, only
\* when no effective CPL is given, when CPL is 3 (an access with effective
\* CPL 0 made at CPL 3 is a supervisor access); a user-mode access to a
\* present page whose PDE or PTE has U/S=0 raises #PF with the protection
\* violation and user bits set, and a supervisor access is never rejected by
\* the U/S check: it succeeds unless the R/W check rejects it.
C8_UserSupervisor ==
    (Walked /\ PdeP /\ PteP) =>
        /\ (UserAccess /\ (~PdeUS \/ ~PteUS)) =>
              /\ xlate.kind = "pf"
              /\ xlate.vector = 14
              /\ ErrorBit(0) /\ ErrorBit(2)
              /\ m_cr2 = xlate.lin
        /\ (~UserAccess /\ xlate.kind = "pf") =>
              /\ xlate.access = "Write"
              /\ WP \in m_cr0
              /\ ~PdeRW \/ ~PteRW
              /\ ~ErrorBit(2)

\* an access with effective CPL 3 made at CPL 0 was rejected by U/S
C8_Witness ==
    /\ xlate.kind = "pf" /\ PdeP /\ PteP
    /\ xlate.ecpl = 3 /\ cpl = 0
    /\ ~PdeUS \/ ~PteUS

\* C9: a write to a present page that passes the U/S check needs R/W=1 on
\* both entries exactly when the access is user-mode or CR0.WP is set, and
\* otherwise raises #PF with the protection-violation bit; a supervisor
\* write with WP=0 to a page with R/W=0 succeeds; a read or an instruction
\* fetch is never rejected by R/W.
C9_ReadWrite ==
    (Walked /\ PdeP /\ PteP /\ (UserAccess => (PdeUS /\ PteUS))) =>
        /\ xlate.kind = "pf" <=>
              /\ xlate.access = "Write"
              /\ UserAccess \/ WP \in m_cr0
              /\ ~PdeRW \/ ~PteRW
        /\ xlate.kind = "pf" =>
              /\ xlate.vector = 14
              /\ ErrorBit(0) /\ ErrorBit(1)
              /\ m_cr2 = xlate.lin

\* a supervisor write with WP=0 to a read-only page succeeded
C9_Witness ==
    /\ xlate.kind = "ok" /\ xlate.access = "Write"
    /\ ~UserAccess /\ WP \notin m_cr0
    /\ ~PteRW

\* memory m without the four bytes of the dwords at a and b
Elsewhere(m, a, b) ==
    [x \in (DOMAIN m) \ ((a .. a + 3) \cup (b .. b + 3)) |-> m[x]]

\* C10: after a successful translation the PDE and the PTE in memory have
\* the Accessed bit set, the PTE has the Dirty bit set iff the access was a
\* write or the bit was set before, nothing else in memory has changed; after
\* a translation that raised #PF memory is what it was before.
C10_AccessedDirty ==
    LET pdeNow == read_physical_memory32(m_memory, xlate.pdeAddress)
        pteNow == read_physical_memory32(m_memory, xlate.pteAddress)
        dirty  == xlate.access = "Write" \/ (xlate.pte \div 64) % 2 = 1
    IN  /\ xlate.kind = "ok" =>
              /\ (pdeNow \div 32) % 2 = 1
              /\ (pteNow \div 32) % 2 = 1
              /\ (pteNow \div 64) % 2 = 1 <=> dirty
              /\ pteNow = xlate.pte
                          + (IF (xlate.pte \div 32) % 2 = 1 THEN 0 ELSE 32)
                          + (IF dirty /\ (xlate.pte \div 64) % 2 = 0
                             THEN 64 ELSE 0)
              /\ xlate.pdeAddress # xlate.pteAddress =>
                    pdeNow = xlate.pde
                             + (IF (xlate.pde \div 32) % 2 = 1 THEN 0 ELSE 32)
              /\ Elsewhere(m_memory, xlate.pdeAddress, xlate.pteAddress)
                 = Elsewhere(xlate.before, xlate.pdeAddress, xlate.pteAddress)
        /\ xlate.kind = "pf" => m_memory = xlate.before

\* a write went through entries that had neither Accessed nor Dirty set
C10_Witness ==
    /\ xlate.kind = "ok" /\ xlate.access = "Write"
    /\ (xlate.pte \div 32) % 2 = 0 /\ (xlate.pte \div 64) % 2 = 0
    /\ (xlate.pde \div 32) % 2 = 0


-----------------------------------------------------------------------------
(* Claims about linear memory accesses (SpecMemory) *)

\* the page table entry that maps linear address l, in memory mem
EntryFor(mem, l) ==
    read_physical_memory32(mem, GuestPTEAddress + ((l \div 4096) % 1024) * 4)

\* the physical address that the page tables in mem give linear address l
MappedTo(mem, l) == PageFrame(EntryFor(mem, l)) + (l % 4096)

\* the step was a 2- or 4-byte access, paging on, whose bytes span two pages
SpanningAccess ==
    /\ access'.op \in {"read", "write"}
    /\ access'.size \in {2, 4}
    /\ get_pg
    /\ PageFrame(access'.lin) # PageFrame(access'.lin + access'.size - 1)

\* C11: with paging enabled, a 2- or 4-byte read or write whose bytes span
\* two pages is made as single-byte accesses at increasing addresses, each
\* byte translated through its own page's entry; a read returns, and a write
\* stores, the little-endian composition of those bytes; a page fault reports
\* in CR2 the address of the byte that faulted, and when only the second page
\* is not present that is the first address of the second page.
C11_ByteWiseAcrossPages ==
    [][SpanningAccess =>
        LET a        == access'
            n        == a.size
            second   == PageFrame(a.lin + n - 1)
            deniedAtFirst ==
                \/ ~HasBit(EntryFor(m_memory, a.lin),
                           PageTableEntryFlags_Present)
                \/ /\ a.op = "write" /\ cpl = 3
                   /\ ~HasBit(EntryFor(m_memory, a.lin),
                              PageTableEntryFlags_ReadWrite)
        IN  /\ \A i \in 1 .. Len(a.steps) :
                  /\ a.steps[i].lin = a.lin + (i - 1)
                  /\ a.steps[i].width = 1
                  /\ a.steps[i].phys = MappedTo(m_memory, a.lin + (i - 1))
            /\ a.outcome \in {"ok", "pf"}
            /\ a.outcome = "ok" =>
                  /\ Len(a.steps) = n
                  /\ a.op = "read" =>
                        /\ \A k \in 0 .. n - 1 :
                              (a.value \div (256 ^ k)) % 256 =
                                 RamByte(m_memory, MappedTo(m_memory, a.lin + k))
                        /\ n = 2 => a.value < 65536
                  /\ a.op = "write" =>
                        \A k \in 0 .. n - 1 :
                           RamByte(m_memory', MappedTo(m_memory, a.lin + k))
                              = (a.value \div (256 ^ k)) % 256
            /\ a.outcome = "pf" =>
                  /\ Len(a.steps) < n
                  /\ m_cr2' = a.lin + Len(a.steps)
            /\ (~deniedAtFirst
                /\ ~HasBit(EntryFor(m_memory, second),
                           PageTableEntryFlags_Present)) =>
                  /\ a.outcome = "pf"
                  /\ m_cr2' = second
                  /\ ~HasBit(a.error, 1)
    ]_vars

\* a 4-byte read at 0x400fff, second page not present: one byte read, then
\* #PF with CR2 = 0x401000
C11_Witness ==
    /\ access.op = "read" /\ access.size = 4 /\ access.lin = 4198399
    /\ access.outcome = "pf"
    /\ Len(access.steps) = 1
    /\ m_cr2 = 4198400
    /\ get_pg

-----------------------------------------------------------------------------
(* Claims about physical memory and providers (SpecPhysical) *)

\* the provider that the block table holds for address a, "null" if none
\* or if a lies above the low 1 MiB
Covering(a) ==
    IF a < LowMemory
    THEN m_memory_providers[a \div memory_provider_block_size]
    ELSE "null"

\* C12: a physical read at or above the RAM size returns 0 and a write there
\* changes neither RAM nor any provider; below the RAM size an address whose
\* block has a registered provider is served by that provider and RAM is
\* neither read nor written; every other address below the RAM size reads
\* and writes the RAM array.
C12_PhysicalDispatch ==
    [][physical'.op \in {"read", "write"} =>
        LET a == physical'.addr
            n == physical'.size
            v == physical'.value
            p == Covering(a)
            isRead == physical'.op = "read"
        IN  /\ a >= m_memory_size =>
                  /\ physical'.served = "none"
                  /\ isRead => v = 0
                  /\ m_memory' = m_memory
                  /\ provider_data' = provider_data
            /\ (a < m_memory_size /\ p # "null") =>
                  /\ physical'.served = p
                  /\ m_memory' = m_memory
                  /\ \A q \in ProviderNames \ {p} :
                        provider_data'[q] = provider_data[q]
                  /\ (isRead /\ physical'.inside) =>
                        /\ v = LoadBytes(provider_data[p],
                                         a - base_address(p), n)
                        /\ provider_data' = provider_data
                  /\ (~isRead /\ physical'.inside) =>
                        LoadBytes(provider_data'[p], a - base_address(p), n)
                           = v
            /\ (a < m_memory_size /\ p = "null") =>
                  /\ physical'.served = "ram"
                  /\ provider_data' = provider_data
                  /\ isRead => (v = LoadBytes(m_memory, a, n)
                                /\ m_memory' = m_memory)
                  /\ ~isRead => LoadBytes(m_memory', a, n) = v
    ]_vars

\* a read at 0xa0000 answered by the registered "vga" provider with its own
\* byte while the RAM array holds another byte at that address
C12_Witness ==
    /\ physical.op = "read" /\ physical.addr = 655360
    /\ physical.served = "vga"
    /\ m_memory_providers[40] = "vga"
    /\ physical.value = LoadBytes(provider_data["vga"], 0, physical.size)
    /\ physical.value # LoadBytes(m_memory, 655360, physical.size)

\* the addresses probed after a registration: the first byte, the byte at
\* 0x1000 and the last byte of every block of the low 1 MiB
ProbedAddresses ==
    {b * memory_provider_block_size + off :
        b \in Blocks, off \in {0, 4096, memory_provider_block_size - 1}}

\* C13: after register_memory_provider(P) with P.base + P.size within the
\* first 1 MiB, an address is dispatched to P exactly when it lies in
\* [P.base, P.base + P.size), whatever the base and the size.
C13_ExactRange ==
    physical.op = "register" =>
        \A a \in ProbedAddresses :
            (memory_provider_for_address(a) = physical.served)
               <=> /\ a >= base_address(physical.served)
                   /\ a < base_address(physical.served)
                            + provider_size(physical.served)

-----------------------------------------------------------------------------
(* Claims about accesses through a segment (SpecSegment) *)

\* the step was a read or write through a segment
SegmentAccess == seg'.op \in {"read", "write"}

\* offset + size - 1 <= effective limit, as unbounded integers
WithinLimit(r) ==
    LET last == r.offset[2] + r.size - 1
        top  == IF last > 65535
                THEN <<r.offset[1] + 1, last - 65536>>
                ELSE <<r.offset[1], last>>
        l    == r.descriptor.limit
    IN  top[1] < l[1] \/ (top[1] = l[1] /\ top[2] <= l[2])

\* the access respected the limit, or it faulted with #GP(0), #SS(0) for a
\* descriptor loaded in SS, and neither touched memory nor made an access
LimitEnforced ==
    /\ seg'.outcome = "ok" => WithinLimit(seg')
    /\ ~WithinLimit(seg') =>
          /\ seg'.outcome = (IF seg'.descriptor.m_loaded_in_ss
                             THEN "SS" ELSE "GP")
          /\ seg'.error = 0
          /\ m_memory' = m_memory
          /\ access' = NoAccess
          /\ m_cr2' = m_cr2

\* C14 as stated: every access of size n at offset o through a segment
\* either satisfies o + n - 1 <= effective limit (no wrapping at 2^32) or
\* raises #GP(0), #SS(0) for SS, and touches no memory -- in every mode.
C14_Original == [][SegmentAccess => LimitEnforced]_vars

\* C14: in protected mode outside virtual-8086 mode, every access of size n
\* at offset o through a segment either satisfies o + n - 1 <= effective
\* limit, the sum not wrapping at 2^32, or raises #GP(0), #SS(0) when the
\* descriptor was loaded into SS, and touches no memory.
C14_LimitCheck ==
    [][(SegmentAccess /\ get_pe /\ ~get_vm) => LimitEnforced]_vars

\* a 4-byte read at offset 0xfffffffd of a flat segment, whose last byte
\* lies past 2^32, refused with #GP(0) in protected mode
C14_Witness ==
    /\ get_pe /\ ~get_vm
    /\ seg.op = "read" /\ seg.size = 4
    /\ seg.offset = <<65535, 65533>>
    /\ seg.descriptor.limit = FlatLimit
    /\ ~seg.descriptor.code
    /\ seg.outcome = "GP" /\ seg.error = 0

\* C15: in protected mode, an access through an expand-down data segment at
\* an offset at or below the effective limit faults, and an access that
\* lies entirely above the limit (here: below 64 KiB) is allowed.
C15_ExpandDown ==
    [][(SegmentAccess /\ get_pe /\ ~get_vm
        /\ ~seg'.descriptor.null /\ ~seg'.descriptor.code
        /\ seg'.descriptor.expand_down) =>
        /\ ~Above(seg'.offset, seg'.descriptor.limit) =>
              seg'.outcome \in {"GP", "SS"}
        /\ (Above(seg'.offset, seg'.descriptor.limit) /\ seg'.offset[1] = 0) =>
              seg'.outcome = "ok"
    ]_vars

-----------------------------------------------------------------------------
(* Claims about far control transfers (SpecFarJump) *)

\* this step is a far JMP or CALL in protected mode
ProtectedFarJump ==
    /\ get_pe /\ ~get_vm
    /\ m_cycle' = m_cycle + 1
    /\ jump'.op \in JumpTypes

\* what the selector of this step's transfer names
Target == get_descriptor(jump'.selector)

\* the privilege rule for a direct transfer to a code segment
DirectTransferAllowed ==
    \/ Target.conforming /\ Target.dpl <= cpl
    \/ ~Target.conforming /\ Target.dpl = cpl /\ jump'.selector % 4 <= cpl

Raised(exception, error) ==
    jump'.outcome = exception /\ jump'.error = error

\* C16: a protected-mode far JMP or CALL straight to a code segment succeeds
\* only under the conforming / non-conforming privilege rule; a violation
\* raises #GP(selector & 0xFFFC), a non-present segment #NP(selector &
\* 0xFFFC), an offset above the limit #GP(0), a null selector #GP(0), a
\* selector outside the table #GP(selector & 0xFFFC); on success CPL is
\* unchanged.
C16_DirectTransfer ==
    [][ProtectedFarJump =>
         /\ Target.kind = "null" => Raised("GP", 0)
         /\ Target.kind = "outside"
               => Raised("GP", WithoutRPL(jump'.selector))
         /\ Target.kind = "code" =>
               /\ jump'.outcome = "ok" => DirectTransferAllowed /\ cpl' = cpl
               /\ ~DirectTransferAllowed
                     => Raised("GP", WithoutRPL(jump'.selector))
               /\ DirectTransferAllowed /\ ~Target.present
                     => Raised("NP", WithoutRPL(jump'.selector))
               /\ DirectTransferAllowed /\ Target.present
                  /\ jump'.offset > Target.limit
                     => Raised("GP", 0)]_vars

\* the gate passes the three checks made on a call gate
GateAccepted ==
    /\ Target.dpl >= cpl
    /\ jump'.selector % 4 <= Target.dpl
    /\ Target.present

\* what the gate's own selector names
GateTarget == get_descriptor(Target.selector)

\* C17: a far JMP or CALL to a call gate is accepted only if gate DPL >= CPL,
\* selector RPL <= gate DPL and the gate is present; the first two violations
\* raise #GP(selector & 0xFFFC), a non-present gate #NP(selector & 0xFFFC),
\* in that order; an accepted gate transfers to the gate's selector:offset,
\* and a gate that points at another gate is rejected with #GP.
C17_CallGate ==
    [][ProtectedFarJump /\ Target.kind = "call_gate" =>
         /\ Target.dpl < cpl => Raised("GP", WithoutRPL(jump'.selector))
         /\ Target.dpl >= cpl /\ jump'.selector % 4 > Target.dpl
               => Raised("GP", WithoutRPL(jump'.selector))
         /\ Target.dpl >= cpl /\ jump'.selector % 4 <= Target.dpl
            /\ ~Target.present
               => Raised("NP", WithoutRPL(jump'.selector))
         /\ jump'.outcome = "ok" => GateAccepted
         /\ GateAccepted /\ is_gate(GateTarget) => jump'.outcome = "GP"
         /\ GateAccepted /\ GateTarget.kind = "code" =>
               /\ jump'.outcome = "ok"
               /\ WithoutRPL(m_cs') = WithoutRPL(Target.selector)
               /\ m_eip' = Target.offset]_vars

\* CPU::task_switch was called, keeping the back-link exactly on CALL
TaskSwitched ==
    /\ jump'.outcome = "task_switch"
    /\ jump'.link = (jump'.op = "CALL")

\* C18: a protected-mode far JMP or CALL whose selector names a task gate or
\* a TSS descriptor performs a task switch (for a TSS after the checks DPL >=
\* CPL, DPL >= RPL and present), with the back-link kept on CALL and not on
\* JMP.
C18_TaskSwitch ==
    [][ProtectedFarJump =>
         /\ Target.kind = "task_gate" => TaskSwitched
         /\ Target.kind = "tss" =>
               IF Target.dpl >= cpl /\ Target.dpl >= jump'.selector % 4
                  /\ Target.present
               THEN TaskSwitched
               ELSE jump'.outcome \in {"GP", "NP"}]_vars

\* this step is a completed far CALL through a call gate into a more
\* privileged code segment
EscalatingCall ==
    /\ ProtectedFarJump
    /\ jump'.op = "CALL"
    /\ jump'.outcome = "ok"
    /\ Target.kind = "call_gate"
    /\ GateTarget.dpl < cpl

GateWidth == IF Target.is_32bit THEN 4 ELSE 2

\* the k-th value pushed by this step: value, width, stack segment, address
Pushed(k, value) ==
    /\ jump'.pushes[k] = [value |-> OperandOf(value, GateWidth),
                          size |-> GateWidth, ss |-> RingSS,
                          at |-> RingESP - k * GateWidth]
    /\ LoadBytes(m_memory', RingESP - k * GateWidth, GateWidth)
          = OperandOf(value, GateWidth)

\* C19: a far CALL through a call gate that escalates privilege loads SS:ESP
\* of the target ring from the current TSS, then pushes on the new stack
\* exactly four values, old SS, old ESP, old CS, old EIP in this order, each
\* with the gate's width; EFLAGS is not pushed; CPL becomes the DPL of the
\* target code segment.
C19_EscalatingCall ==
    [][EscalatingCall =>
         /\ m_ss' = RingSS
         /\ m_esp' = RingESP - 4 * GateWidth
         /\ Len(jump'.pushes) = 4
         /\ Pushed(1, m_ss)
         /\ Pushed(2, m_esp)
         /\ Pushed(3, m_cs)
         /\ Pushed(4, m_eip)
         /\ cpl' = GateTarget.dpl]_vars

\* a ring-3 caller has called through the 16-bit gate with a 32-bit operand
\* and runs in ring 0 on the TSS stack
C19_Witness ==
    /\ jump.op = "CALL" /\ jump.outcome = "ok" /\ jump.o32
    /\ get_descriptor(jump.selector).kind = "call_gate"
    /\ ~get_descriptor(jump.selector).is_32bit
    /\ Len(jump.pushes) = 4
    /\ jump.pushes[1].value = UserSS
    /\ cpl = 0 /\ m_ss = RingSS /\ m_esp = RingESP - 8

-----------------------------------------------------------------------------
(* Claims about far returns (SpecFarReturn) *)

\* this step is a far RET in protected mode
ProtectedFarReturn ==
    /\ get_pe /\ ~get_vm
    /\ m_cycle' = m_cycle + 1
    /\ jump'.op = "RETF"

\* C20: a protected-mode far RET that raises an exception on any of its
\* checks (null selector, selector outside the table, not a code segment,
\* RPL < CPL, conforming DPL > RPL, non-conforming DPL # RPL, not present,
\* offset above the limit) leaves ESP, SS, CS and EIP as before the
\* instruction: the stack pointer moves only when the popper commits.
C20_FaultingReturnKeepsStack ==
    [][ProtectedFarReturn /\ jump'.outcome \in {"GP", "NP"} =>
         /\ m_esp' = m_esp
         /\ m_ss' = m_ss
         /\ m_cs' = m_cs
         /\ m_eip' = m_eip
         /\ cpl' = cpl]_vars

\* a RETF imm16 popped a selector of a present code segment and an offset
\* above its limit, raised #GP(0), and ESP is still the callee's
C20_Witness ==
    /\ jump.op = "RETF" /\ jump.outcome = "GP" /\ jump.error = 0
    /\ jump.adjustment = 4
    /\ get_descriptor(jump.selector).kind = "code"
    /\ jump.offset > get_descriptor(jump.selector).limit
    /\ m_esp = CalleeESP


\* a protected-mode far RET that raised no exception
FarReturned == ProtectedFarReturn /\ jump'.outcome = "ok"

\* the k-th value of the return frame at the operand size: offset and
\* selector at ESP, then, above the bytes that RETF imm16 releases, the
\* outer ESP and SS
FramePop(k) ==
    LoadBytes(m_memory,
              m_esp + k * (IF jump'.o32 THEN 4 ELSE 2)
                    + (IF k >= 2 THEN jump'.adjustment ELSE 0),
              IF jump'.o32 THEN 4 ELSE 2)

\* a far RET to an outer ring, and one that stays in its ring
OuterReturn == FarReturned /\ FramePop(1) % 4 > cpl
SameRingReturn == FarReturned /\ FramePop(1) % 4 = cpl

\* EIP and CS come from the first two values of the frame (EIP cut to 16
\* bits in a 16-bit code segment), and a return within the ring releases
\* the frame and leaves SS and the data segment registers alone
ReturnPopsFrame ==
    /\ FarReturned
        => /\ m_cs' = FramePop(1) % 65536
           /\ m_eip' = (IF get_descriptor(FramePop(1) % 65536).is_32bit
                        THEN FramePop(0) ELSE FramePop(0) % 65536)
           /\ cpl' = FramePop(1) % 4
    /\ SameRingReturn
        => /\ m_ss' = m_ss
           /\ m_data_segments' = m_data_segments
           /\ m_esp' = m_esp + 2 * (IF jump'.o32 THEN 4 ELSE 2)
                             + jump'.adjustment
    /\ OuterReturn
        => /\ m_esp' = FramePop(2) + jump'.adjustment
           /\ m_ss' = FramePop(3) % 65536

\* the cached descriptor of a data segment register before the return
Cached(r) == get_descriptor(m_data_segments[r])

\* C21 as stated: a protected-mode far RET pops EIP then CS at the operand
\* size; to an outer ring it also pops ESP then SS and loads the null
\* selector into each of DS, ES, FS, GS whose cached descriptor has
\* DPL < the new CPL; within the ring SS and the data segment registers
\* stay
C21_EveryLowerDPLCleared ==
    [][/\ ReturnPopsFrame
       /\ OuterReturn
           => \A r \in {"DS", "ES", "FS", "GS"} :
                 m_data_segments'[r] =
                     (IF Cached(r).dpl < cpl' THEN 0 ELSE m_data_segments[r])
      ]_vars

\* C21 amended: the null selector goes into each of DS, ES, FS, GS whose
\* cached descriptor is a data segment or a non-conforming code segment
\* with DPL < the new CPL; a conforming code segment stays loaded whatever
\* its DPL.  The rest is as stated: EIP then CS popped at the operand size,
\* ESP then SS popped and loaded on a return to an outer ring, SS and the
\* data segment registers untouched on a return within the ring
C21_FarReturn ==
    [][/\ ReturnPopsFrame
       /\ OuterReturn
           => \A r \in {"DS", "ES", "FS", "GS"} :
                 m_data_segments'[r] =
                     (IF /\ Cached(r).dpl < cpl'
                         /\ \/ Cached(r).kind = "data"
                            \/ Cached(r).kind = "code"
                               /\ ~Cached(r).conforming
                      THEN 0 ELSE m_data_segments[r])
      ]_vars

\* a return from ring 0 to ring 3 that cleared DS and FS and left the
\* conforming code segment in GS
C21_Witness ==
    /\ get_pe
    /\ jump.op = "RETF" /\ jump.outcome = "ok"
    /\ jump.from.cs % 4 = 0 /\ cpl = 3
    /\ m_ss = UserSS /\ m_esp = UserESP + jump.adjustment
    /\ m_data_segments = [r \in {"DS", "ES", "FS", "GS"} |->
                            IF r = "ES" THEN UserSS
                            ELSE IF r = "GS" THEN 24 ELSE 0]


-----------------------------------------------------------------------------
(* Claims about real-mode far calls and returns (SpecCallReturn) *)

\* a far RET without stack adjustment that follows a far CALL of the same
\* operand size
ReturnAfterCall ==
    /\ ~get_pe
    /\ jump.op = "CALL" /\ jump.outcome = "ok"
    /\ jump'.op = "RETF" /\ jump'.adjustment = 0
    /\ jump'.o32 = jump.o32
    /\ m_cycle' = m_cycle + 1

\* C22: in real mode a far CALL followed by a far RET with no stack
\* adjustment restores CS and EIP to the return address of the CALL and SP
\* to its value before the CALL, for 16- and 32-bit operand size and for
\* every initial SP, those where the pushes wrap SP included
C22_CallReturnRoundTrip ==
    [][ReturnAfterCall
       => /\ m_cs' = jump.from.cs
          /\ m_eip' = jump.from.eip
          /\ m_esp' = jump.from.esp
          /\ m_ss' = m_ss
      ]_vars

\* back at 1000:1234 with SP = 2 after a 32-bit CALL whose pushes wrapped SP
\* to 0xFFFA
C22_Witness ==
    /\ ~get_pe
    /\ jump.op = "RETF" /\ jump.o32 /\ jump.adjustment = 0
    /\ jump.from.cs \in RealSegments /\ jump.from.esp = 65530
    /\ m_cs = EntryCS /\ m_eip = 4660 /\ m_esp = 2


-----------------------------------------------------------------------------
(* Claims about interrupt delivery (SpecInterrupt) *)

\* a step that is one call of CPU::interrupt
Interrupted == jump'.op = "INT" /\ m_cycle' = m_cycle + 1
RealModeInterrupted == Interrupted /\ ~get_pe
ProtectedModeInterrupted == Interrupted /\ get_pe /\ ~get_vm

\* the word at SS:SP + k of the real-mode stack after the step
StackWord(k) ==
    LoadBytes(m_memory', m_ss * 16 + ((m_esp' + k) % 65536), 2)

\* C23: a real-mode interrupt of vector v pushes exactly three 16-bit words,
\* FLAGS, CS and IP in this order (SP goes down by 6, modulo 2^16), loads IP
\* from the word at v*4 and CS from the word at v*4+2, and clears IF and TF
\* while every other flag and all general registers keep their values; the
\* FLAGS image pushed holds IF and TF as they were before the interrupt
C23_RealModeInterrupt ==
    [][RealModeInterrupted
       => /\ jump'.outcome = "ok"
          /\ Len(jump'.pushes) = 3
          /\ \A k \in 1 .. 3 : jump'.pushes[k].size = 2
          /\ m_esp' = (m_esp + 65536 - 6) % 65536
          /\ m_ss' = m_ss
          /\ StackWord(4) = jump'.pushes[1].value
          /\ HasBit(StackWord(4), 512) = m_flags.if
          /\ HasBit(StackWord(4), 256) = m_flags.tf
          /\ set_flags(m_flags, StackWord(4)) = m_flags
          /\ StackWord(2) = m_cs
          /\ StackWord(0) = m_eip
          /\ m_eip' = LoadBytes(m_memory, 4 * jump'.selector, 2)
          /\ m_cs' = LoadBytes(m_memory, 4 * jump'.selector + 2, 2)
          /\ m_flags' = [m_flags EXCEPT !.if = FALSE, !.tf = FALSE]
          /\ m_gpr' = m_gpr
      ]_vars

\* vector 9 delivered in real mode to a program with IF and TF set and
\* SP = 4: the handler runs at 2009:0109 with both clear, SP wrapped to
\* 0xFFFE, and the pushed image has both set
C23_Witness ==
    /\ ~get_pe
    /\ jump.op = "INT" /\ jump.selector = 9
    /\ m_cs = 8201 /\ m_eip = 265
    /\ m_esp = 65534
    /\ ~m_flags.if /\ ~m_flags.tf
    /\ HasBit(jump.pushes[1].value, 512) /\ HasBit(jump.pushes[1].value, 256)


\* the IDT gate of the delivered vector and the source of the delivery
TheGate == GuestIDT[jump'.selector + 1]
Software == last_int'.source = "Internal"

\* the delivery was refused with this exception before it changed a
\* register, a flag or the stack
RefusedUntouched(exception) ==
    /\ jump'.outcome = exception
    /\ jump'.pushes = << >>
    /\ UNCHANGED <<m_cs, m_eip, cpl, m_ss, m_esp, m_flags, m_memory, m_gpr,
                   m_data_segments>>

\* a present interrupt or trap gate to a present code segment that the
\* interrupted program may enter, with the offset inside the limit
SoundGate ==
    /\ TheGate.present
    /\ TheGate.type \in {6, 7, 14, 15}
    /\ get_descriptor(TheGate.selector).kind = "code"
    /\ get_descriptor(TheGate.selector).present
    /\ get_descriptor(TheGate.selector).dpl <= cpl
    /\ TheGate.offset <= get_descriptor(TheGate.selector).limit

\* C24: protected-mode delivery refuses an IDT gate that is not present with
\* #NP, a null gate with #GP, and, for software interrupts only, a gate
\* whose DPL is below CPL with #GP, each before any register or stack
\* change; a hardware IRQ is never refused for the DPL of its gate
C24_GateChecks ==
    [][ProtectedModeInterrupted
       => /\ Software /\ TheGate.dpl < cpl => RefusedUntouched("GP")
          /\ ~(Software /\ TheGate.dpl < cpl) /\ ~TheGate.present
                => RefusedUntouched("NP")
          /\ ~(Software /\ TheGate.dpl < cpl) /\ TheGate.present
             /\ TheGate.type = 0
                => RefusedUntouched("GP")
          /\ ~Software /\ SoundGate => jump'.outcome = "ok"
      ]_vars

\* INT 0 executed in ring 3 through a gate of DPL 0: #GP, and the program
\* is where it was
C24_Witness ==
    /\ get_pe
    /\ jump.op = "INT" /\ jump.selector = 0
    /\ last_int.source = "Internal"
    /\ jump.outcome = "GP"
    /\ cpl = 3 /\ m_cs = 19 /\ m_eip = 4660 /\ m_esp = UserESP
    /\ jump.pushes = << >>


\* the EXT bit of an error code: set when the event came from outside the
\* program, a hardware IRQ
EXT == IF last_int'.source = "External" THEN 1 ELSE 0

\* the delivery raised an exception with an error code that names the IDT
\* entry of the vector
IdtFault ==
    \/ gate_dpl_refuses(TheGate, cpl, last_int'.source)
    \/ ~TheGate.present
    \/ TheGate.type \notin {5, 6, 7, 14, 15}

\* C25: every error code built during interrupt delivery has the
\* architectural format: (vector << 3) | 2 | EXT for a fault that refers to
\* the IDT entry; for a fault that refers to a selector, the 16-bit selector
\* with bits 0 and 1 replaced by IDT = 0 and EXT, no index bit lost; EXT is
\* 1 exactly when the source is a hardware IRQ
C25_ErrorCodeFormat ==
    [][ProtectedModeInterrupted /\ jump'.outcome \in {"GP", "NP", "TS", "SS"}
       => IF IdtFault
          THEN jump'.error = 8 * jump'.selector + 2 + EXT
          ELSE \/ jump'.error = WithoutRPL(TheGate.selector) + EXT
               \/ /\ jump'.error = 0
                  /\ get_descriptor(TheGate.selector).kind = "code"
                  /\ TheGate.offset > get_descriptor(TheGate.selector).limit
      ]_vars


\* the delivery went through the gate into the handler
EnteredHandler == ProtectedModeInterrupted /\ jump'.outcome = "ok"

\* the gate passes every check made before its type is looked at
GateReachesTypeCheck ==
    /\ ~gate_dpl_refuses(TheGate, cpl, last_int'.source)
    /\ TheGate.present
    /\ get_descriptor(TheGate.selector).kind = "code"
    /\ get_descriptor(TheGate.selector).present
    /\ get_descriptor(TheGate.selector).dpl <= cpl

Escalates ==
    /\ ~get_descriptor(TheGate.selector).conforming
    /\ get_descriptor(TheGate.selector).dpl < cpl

\* what the frame holds, first push first
Frame ==
    (IF Escalates THEN <<m_ss, m_esp>> ELSE << >>)
        \o <<getEFlags(m_flags), m_cs, m_eip>> \o jump'.code

\* the stack the frame is built on
FrameSS == IF Escalates THEN RingSS ELSE m_ss
FrameTop == IF Escalates THEN RingESP ELSE m_esp

\* C27: a protected-mode delivery pushes, each at the width of the gate:
\* the old SS and the old ESP (only when the target is non-conforming code
\* with DPL < CPL, after the switch to the SS:ESP of the TSS), then EFLAGS,
\* the old CS and the old EIP, then the error code if there is one; without
\* a change of privilege the stack segment stays and only the last three or
\* four are pushed
C27_FrameOrder ==
    [][EnteredHandler
       => /\ Len(jump'.pushes) = Len(Frame)
          /\ \A k \in 1 .. Len(Frame) :
                /\ jump'.pushes[k].size = (IF is32Bit(TheGate) THEN 4 ELSE 2)
                /\ jump'.pushes[k].value
                      = OperandOf(Frame[k], jump'.pushes[k].size)
                /\ jump'.pushes[k].ss = FrameSS
                /\ jump'.pushes[k].at = FrameTop - k * jump'.pushes[k].size
                /\ LoadBytes(m_memory', jump'.pushes[k].at,
                             jump'.pushes[k].size) = jump'.pushes[k].value
          /\ m_ss' = FrameSS
          /\ m_esp' = FrameTop
                          - Len(Frame) * (IF is32Bit(TheGate) THEN 4 ELSE 2)
      ]_vars

\* an exception with error code 43 raised in ring 3 and delivered through
\* the 32-bit trap gate of vector 1 to ring 0: six doublewords on the
\* ring-0 stack, the old SS first and the error code last
C27_Witness ==
    /\ get_pe
    /\ jump.op = "INT" /\ jump.selector = 1 /\ jump.outcome = "ok"
    /\ last_int.source = "Internal"
    /\ Len(jump.pushes) = 6
    /\ jump.pushes[1].value = UserSS /\ jump.pushes[2].value = UserESP
    /\ jump.pushes[4].value = 19 /\ jump.pushes[5].value = 4660
    /\ jump.pushes[6].value = 43
    /\ m_ss = RingSS /\ m_esp = RingESP - 24


-----------------------------------------------------------------------------
(* Claims about PUSHA, POP CS and BOUND (SpecExecute) *)

\* the word at SS:SP + 2k of the real-mode stack after the step
StackSlot(k) ==
    LoadBytes(m_memory', m_ss * 16 + ((m_esp' + 2 * k) % 65536), 2)

\* C28: PUSHA pushes AX, CX, DX, BX, the SP of before the instruction, BP,
\* SI, DI in that order: the eight words from the new top of stack upward
\* are DI, SI, BP, the original SP, BX, DX, CX, AX; SP ends 16 below its
\* start (modulo 2^16) and no other general register changes
C28_PUSHA ==
    [][jump'.op = "PUSHA" /\ m_cycle' = m_cycle + 1
       => /\ m_esp' = (m_esp + 65536 - 16) % 65536
          /\ Len(jump'.pushes) = 8
          /\ StackSlot(0) = m_gpr["EDI"] % 65536
          /\ StackSlot(1) = m_gpr["ESI"] % 65536
          /\ StackSlot(2) = m_gpr["EBP"] % 65536
          /\ StackSlot(3) = m_esp
          /\ StackSlot(4) = m_gpr["EBX"] % 65536
          /\ StackSlot(5) = m_gpr["EDX"] % 65536
          /\ StackSlot(6) = m_gpr["ECX"] % 65536
          /\ StackSlot(7) = m_gpr["EAX"] % 65536
          /\ m_gpr' = m_gpr
          /\ m_ss' = m_ss
      ]_vars

\* PUSHA executed with SP = 8: SP wrapped to 0xFFF8 and the fifth word
\* pushed is 8
C28_Witness ==
    /\ jump.op = "PUSHA"
    /\ jump.from.esp = 8 /\ m_esp = 65528
    /\ jump.pushes[5].value = 8
    /\ jump.pushes[1].value = 65535
    /\ jump.pushes[8].value = 30583

\* C29: executing POP CS raises #UD and leaves CS, SP and the contents of
\* the stack unchanged
C29_PopCsInvalid ==
    [][jump'.op = "POP_CS" /\ m_cycle' = m_cycle + 1
       => /\ jump'.outcome = "UD"
          /\ UNCHANGED <<m_cs, m_esp, m_ss, m_memory>>
      ]_vars

\* the index register and the bounds of a BOUND with a memory operand, as
\* signed integers of the operand size
BoundWidth == IF jump'.o32 THEN 4 ELSE 2
BoundIndex == AsSigned(OperandOf(m_gpr["EAX"], BoundWidth), BoundWidth)
LowerBound ==
    AsSigned(LoadBytes(m_memory, 16 * m_data_segments["DS"] + jump'.offset,
                       BoundWidth), BoundWidth)
UpperBound ==
    AsSigned(LoadBytes(m_memory, 16 * m_data_segments["DS"] + jump'.offset
                                     + BoundWidth, BoundWidth), BoundWidth)

\* C30: at every call site BOUND runs the bounds check: with a memory
\* operand it reads the lower and the upper bound, raises #BR (vector 5)
\* exactly when the signed index is below the lower or above the upper
\* bound, and otherwise changes no register, flag or memory
C30_BoundChecked ==
    [][jump'.op \in {"BOUND", "VCpu::BOUND"} /\ m_cycle' = m_cycle + 1
       /\ jump'.outcome # "UD"
       => /\ jump'.outcome
                = (IF BoundIndex < LowerBound \/ BoundIndex > UpperBound
                   THEN "BR" ELSE "ok")
          /\ UNCHANGED <<cpuRegs, cpuFlow, m_ss, m_esp, m_data_segments,
                         m_memory>>
      ]_vars


-----------------------------------------------------------------------------
(* Further claims about the main loop (Spec) *)

\* C37: at the top of every main-loop iteration the cached flag
\* main_loop_needs_slow_stuff is true exactly when a debugger request is
\* pending, a hard reboot is pending or the debugger is active (tracing,
\* breakpoints and watches are absent here); once a hard reboot has been
\* serviced and nothing else holds, the flag is false again
C37_SlowStuffFlagExact ==
    pc = "top"
        => (m_main_loop_needs_slow_stuff
               <=> \/ m_debugger_request # "NoDebuggerRequest"
                   \/ m_should_hard_reboot
                   \/ debugger_active)

\* C39: while an IRQ is pending and IF stays set, at most one instruction
\* boundary passes without the IRQ being serviced: a boundary that is
\* skipped with the IRQ pending and IF set never follows a boundary that was
\* skipped in the same way
C39_OneBoundaryDelay ==
    [][(/\ pc = "post" /\ CpuMoved
        /\ m_next_instruction_is_uninterruptible
        /\ pic_pending /\ get_if) => ~irq_skipped]_vars

\* C34: after any reset, including a hard reboot requested after the guest
\* has written to RAM, every byte of the flat RAM array reads as 0
C34_RamZeroAfterReset ==
    done \in {"construct", "reboot"} =>
        \A a \in DOMAIN m_memory : RamByte(m_memory, a) = 0

-----------------------------------------------------------------------------
(* Claims about the end of RAM (SpecRamEnd) *)

\* C38: every physical access of width 1, 2 or 4 that is not served by a
\* provider touches only RAM bytes whose index is below the RAM size: an
\* access that starts in the last bytes of RAM never reads or writes past
\* the end of the array
C38_AccessWithinRam ==
    physical.served = "ram" =>
        /\ physical.addr + physical.size <= m_memory_size
        /\ physical.inside

-----------------------------------------------------------------------------
(* Claims about far transfers that fail (SpecGateCall) *)

\* the far JMP or CALL of this step raised an exception
FarJumpThrew ==
    /\ jump'.op \in JumpTypes
    /\ jump'.outcome \in {"GP", "NP", "TS", "SS"}

\* C35: a protected-mode far JMP or CALL, direct or through a call gate,
\* that raises any exception (also #TS or #SS while validating the inner
\* stack of the TSS) leaves CS, EIP, CPL, SS and ESP unchanged
C35_FailedTransferKeepsState ==
    [][(get_pe /\ ~get_vm /\ FarJumpThrew) =>
          UNCHANGED <<m_cs, m_eip, cpl, m_ss, m_esp>>]_vars

-----------------------------------------------------------------------------
(* Claims about assertions (SpecFarJump) *)

\* C36: no input under the guest's control (selectors, offsets, descriptor
\* contents) makes the core abort through an assertion: every far transfer
\* ends in a transfer, a task switch or an architectural exception
C36_NoAssertionAbort == jump.outcome # "abort"

C31_CplIsSelectorRpl ==
    (get_pe /\ ~get_vm) => cpl = m_cs % 4

\* a direct transfer whose selector carried another RPL than the CPL has
\* completed, or a transfer has completed in another ring than it began
C31_Witness ==
    /\ get_pe /\ ~get_vm
    /\ jump.outcome = "ok"
    /\ \/ jump.op \in {"JMP", "CALL"} /\ jump.selector = 16 /\ m_cs = 19
       \/ jump.op \in {"CALL", "RETF", "INT"} /\ cpl # jump.from.cs % 4

\* the code segment in CS is a 16-bit one: real mode, or a descriptor whose
\* D bit is clear
CodeIs16Bit == ~get_pe \/ ~get_descriptor(m_cs).is_32bit

\* C32: after every jump made with a 16-bit operand size in a 16-bit code
\* segment, near or far, EIP is at most 0xFFFF
C32_EipWithin16Bits ==
    (/\ done = "far_transfer"
     /\ jump.outcome = "ok"
     /\ ~jump.o32
     /\ CodeIs16Bit) => m_eip <= 65535

\* the word at SS:offset before the instruction
WordBefore(offset) == LoadBytes(m_memory, m_ss * 16 + (offset % 65536), 2)

\* C40: ENTER size, L with L in 1..31 pushes L + 1 words: the old BP, the
\* L - 1 words at SS:BP-2, SS:BP-4, ..., then the new frame pointer; BP ends
\* as the SP right after the first push and SP ends size bytes below the
\* last push
C40_EnterPushes ==
    [][(/\ jump'.op = "ENTER"
        /\ m_cycle' = m_cycle + 1
        /\ jump'.adjustment % 32 \in 1 .. 31)
       => LET L == jump'.adjustment % 32
              frame == (m_esp + 65536 - 2) % 65536
          IN  /\ Len(jump'.pushes) = L + 1
              /\ jump'.pushes[1].value = m_gpr["EBP"] % 65536
              /\ \A k \in 1 .. L - 1 :
                    jump'.pushes[1 + k].value
                       = WordBefore(m_gpr["EBP"] + 65536 - 2 * k)
              /\ jump'.pushes[L + 1].value = frame
              /\ m_gpr'["EBP"] % 65536 = frame
              /\ m_esp' % 65536
                    = (m_esp + 3 * 65536 - 2 * (L + 1) - jump'.offset) % 65536
      ]_vars

=========================================================================
